---- MODULE Spec2Model ----
(***************************************************************************)
(* Model of the agentic_identity Python binding                            *)
(* (src/python/src/agentic_identity) and of the native engine it calls     *)
(* through ctypes.  The binding (Identity, verify_receipt,                 *)
(* verify_trust_grant, _check, _take_string) is translated from the Python *)
(* source; the native engine (the aid_* functions of the shared library)   *)
(* is not part of the sources at hand and is modelled from the             *)
(* specification text, sections 4.1 to 4.5 and 7.                          *)
(***************************************************************************)
EXTENDS Integers, Sequences, FiniteSets, TLC

VARIABLES
    files,      \* path -> container written by aid_identity_create, or NoFile
    nextKey,    \* number of key pairs generated so far
    objs,       \* the Identity objects constructed so far (Python side)
    anchors,    \* the native IdentityAnchor allocations, by handle
    uaf,        \* TRUE once a native function was given a handle that is not live
    wstack,     \* the with-blocks currently entered, innermost last
    flow,       \* "run", or the exit in flight through the with-blocks
    nextRec,    \* number of receipts and grants the engine has produced
    signed,     \* the receipt JSON returned by the last successful sign_action
    granted,    \* the grant JSON returned by the last successful create_trust_grant
    now,        \* the engine's clock (seconds)
    last,       \* the last call of the binding: operation, object, outcome
    frames,     \* per thread: the call of the binding the thread is in, and its outcome
    slots,      \* the output arguments the calls in progress hand to the engine
    model,      \* the typed model last produced: how, from what, and its fields
    rejected    \* the objects whose __init__ raised, not yet collected

vars == <<files, nextKey, objs, anchors, uaf, wstack, flow, nextRec, signed,
          granted, now, last, frames, slots, model, rejected>>

----------------------------------------------------------------------------
(* Bounds of the model *)

MaxObjs == 2
MaxKeys == 2
MaxRecs == 2
MaxTime == 3
MaxUses == 3
MaxThreads == 2

----------------------------------------------------------------------------
(* Error codes, src/python/src/agentic_identity/_ffi.py *)

AID_OK == 0
AID_ERR_NULL_PTR == -1
AID_ERR_INVALID_UTF8 == -2
AID_ERR_CRYPTO == -3
AID_ERR_IO == -4
AID_ERR_SERIALIZATION == -5

ERROR_MESSAGES(rc) ==
    CASE rc = AID_ERR_NULL_PTR -> "A required pointer argument was null"
      [] rc = AID_ERR_INVALID_UTF8 -> "A string argument contained invalid UTF-8"
      [] rc = AID_ERR_CRYPTO -> "A cryptographic operation failed"
      [] rc = AID_ERR_IO -> "A filesystem I/O operation failed"
      [] rc = AID_ERR_SERIALIZATION -> "JSON serialization or deserialization failed"
      [] OTHER -> "Unknown FFI error code"

(* An exception in flight, or NoExc.  kind is the Python class. *)
NoExc == [kind |-> "none", code |-> 0, msg |-> ""]

AgenticIdentityError(code, message) ==
    [kind |-> "AgenticIdentityError", code |-> code, msg |-> message]

UnicodeEncodeError == [kind |-> "UnicodeEncodeError", code |-> 0, msg |-> "surrogates not allowed"]

TypeError == [kind |-> "TypeError", code |-> 0, msg |-> "not JSON serializable"]

(* str(AgenticIdentityError(code, message)): "[AID error {code}] {message}" *)
ErrorText(e) == <<"[AID error ", ToString(e.code), "] ", e.msg>>

(* _check: raise AgenticIdentityError iff rc is not AID_OK *)
check(rc) ==
    IF rc # AID_OK THEN AgenticIdentityError(rc, ERROR_MESSAGES(rc)) ELSE NoExc

----------------------------------------------------------------------------
(* Python str values are sequences of tokens.  Two tokens are special:     *)
(* NUL is the character U+0000 and SURR a lone surrogate (U+D800).         *)

NUL == "\\0"
SURR == "\\ud800"

(* str.encode("utf-8"): fails on a lone surrogate, else the same tokens. *)
Encodable(s) == \A i \in 1..Len(s) : s[i] # SURR

(* What a native function reads through a c_char_p argument: the bytes up  *)
(* to the first zero byte.                                                 *)
RECURSIVE CString(_)
CString(b) ==
    IF b = <<>> \/ Head(b) = NUL THEN <<>> ELSE <<Head(b)>> \o CString(Tail(b))


(* What a native function reads through a c_char_p argument that Python    *)
(* built with s.encode("utf-8").                                           *)
CStr(s) == CString(s)

None == 0

(* An optional number of a record (not_before, not_after, max_uses) that   *)
(* is absent.                                                              *)
NoTime == -1

----------------------------------------------------------------------------
(* Values the engine derives from a key pair.  Key pairs are numbered      *)
(* 1..MaxKeys in the order they are generated.                             *)

IdOf(k) == <<"aid_", ToString(k)>>
PubOf(k) == <<"pk_", ToString(k)>>

(* A library-owned string returned through an output parameter. *)
NullPtr == [null |-> TRUE, val |-> <<>>]
Ptr(s) == [null |-> FALSE, val |-> s]

(* A container file: the key pair sealed in it, the passphrase it was      *)
(* sealed under, whether its bytes are as written, and the identity id     *)
(* that Identity.create returned when it was written.                      *)
NoFile == [key |-> 0, pass |-> <<>>, intact |-> TRUE, made |-> <<>>]
Paths == {<<"a.aid">>, <<"missing.aid">>}
Unalloc == [st |-> "unalloc", key |-> 0, frees |-> 0]

(* The status the boundary reports for a violated semantic precondition.   *)
(* The boundary has no code of its own for it.                             *)
ValidationRc == {AID_ERR_CRYPTO, AID_ERR_SERIALIZATION}

IsLive(anc, h) == h \in DOMAIN anc /\ anc[h].st = "live"

(* aid_identity_free: releases the anchor.  A handle that is not live is a *)
(* double free.                                                            *)
aid_identity_free(anc, h) ==
    IF h \in DOMAIN anc
    THEN [anc EXCEPT ![h] = [st |-> "freed", key |-> @.key,
                             frees |-> IF @.frees < 2 THEN @.frees + 1 ELSE 2]]
    ELSE anc

(* aid_identity_get_id / aid_identity_get_public_key: the possible         *)
(* (rc, out) pairs.  On a handle that is not live the read is of freed     *)
(* memory: any outcome.                                                    *)
aid_identity_get_id(anc, h) ==
    IF h = None THEN {[rc |-> AID_ERR_NULL_PTR, out |-> NullPtr]}
    ELSE IF IsLive(anc, h) THEN {[rc |-> AID_OK, out |-> Ptr(IdOf(anc[h].key))]}
    ELSE {[rc |-> AID_OK, out |-> Ptr(<<"garbage">>)],
          [rc |-> AID_ERR_CRYPTO, out |-> NullPtr]}

aid_identity_get_public_key(anc, h) ==
    IF h = None THEN {[rc |-> AID_ERR_NULL_PTR, out |-> NullPtr]}
    ELSE IF IsLive(anc, h) THEN {[rc |-> AID_OK, out |-> Ptr(PubOf(anc[h].key))]}
    ELSE {[rc |-> AID_OK, out |-> Ptr(<<"garbage">>)],
          [rc |-> AID_ERR_CRYPTO, out |-> NullPtr]}

(* aid_identity_load: the status, and the key of the anchor it allocates.  *)
(* Authenticated decryption fails alike for a wrong passphrase and for a   *)
(* container whose bytes were altered.                                     *)
aid_identity_load(fs, cpath, cpass) ==
    IF cpath \notin DOMAIN fs \/ fs[cpath] = NoFile
    THEN [rc |-> AID_ERR_IO, key |-> 0]
    ELSE IF fs[cpath].pass # cpass \/ ~fs[cpath].intact
    THEN [rc |-> AID_ERR_CRYPTO, key |-> 0]
    ELSE [rc |-> AID_OK, key |-> fs[cpath].key]

----------------------------------------------------------------------------
(* The binding: src/python/src/agentic_identity/__init__.py and _ffi.py *)

(* _take_string: the exception raised if any, the str returned, and the    *)
(* native calls made.                                                      *)
(* A library-owned string whose bytes are not valid UTF-8. *)
InvalidPtr == [null |-> FALSE, val |-> <<>>, invalid |-> TRUE]

Decodable(ptr) == "invalid" \notin DOMAIN ptr

UnicodeDecodeError ==
    [kind |-> "UnicodeDecodeError", code |-> 0, msg |-> "invalid start byte"]

take_string_free_first(ptr) ==
    IF ptr.null
    THEN [exc |-> AgenticIdentityError(AID_ERR_NULL_PTR, "Received null string pointer from FFI"),
          val |-> <<>>, ncalls |-> <<>>]
    ELSE [exc |-> NoExc, val |-> [shape |-> "garbage", tail |-> <<>>],
          ncalls |-> <<"aid_free_string">>]

(* _take_string decodes ptr.value before it calls aid_free_string: when   *)
(* the bytes are not UTF-8 the decoding raises and the free is not         *)
(* reached.                                                                *)
take_string(ptr) ==
    IF ptr.null
    THEN [exc |-> AgenticIdentityError(AID_ERR_NULL_PTR, "Received null string pointer from FFI"),
          val |-> <<>>, ncalls |-> <<>>]
    ELSE IF ~Decodable(ptr)
    THEN [exc |-> UnicodeDecodeError, val |-> <<>>, ncalls |-> <<>>]
    ELSE [exc |-> NoExc, val |-> ptr.val, ncalls |-> <<"aid_free_string">>]

(* version(): aid_version returns a static string, which is decoded and    *)
(* never freed.                                                            *)
version(raw) ==
    IF raw.null
    THEN [exc |-> AgenticIdentityError(-1, "aid_version returned null"),
          val |-> <<>>, ncalls |-> <<"aid_version">>]
    ELSE [exc |-> NoExc, val |-> raw.val, ncalls |-> <<"aid_version">>]

(* Identity._require_handle: the exception it raises, if any. *)
require_handle_unchecked(o) == NoExc

require_handle(o) ==
    IF o.handle = None
    THEN AgenticIdentityError(-1, "Identity handle has been closed")
    ELSE NoExc

(* A c_void_p that holds no address. *)
NullHandle == -1

(* Identity.__init__(handle): the exception raised, if any, and the        *)
(* attributes the object has afterwards.  A null handle is rejected        *)
(* before self._handle is assigned.                                        *)
Identity_init_assigns_first(handle) ==
    [exc |-> IF handle = NullHandle
             THEN AgenticIdentityError(-1, "Cannot create Identity with a null handle")
             ELSE NoExc,
     self |-> [attrs |-> {"_handle"}, handle |-> handle]]

Identity_init(handle) ==
    IF handle = NullHandle
    THEN [exc |-> AgenticIdentityError(-1, "Cannot create Identity with a null handle"),
          self |-> [attrs |-> {}, handle |-> None]]
    ELSE [exc |-> NoExc, self |-> [attrs |-> {"_handle"}, handle |-> handle]]

(* __del__ of an object whose __init__ raised: close reads self._handle;   *)
(* without the attribute that is an AttributeError, which the interpreter  *)
(* ignores in __del__; with it, anything but None is passed to             *)
(* aid_identity_free.                                                      *)
del_rejected(self) ==
    IF "_handle" \notin self.attrs THEN [ignored |-> "AttributeError", ncalls |-> <<>>]
    ELSE IF self.handle # None THEN [ignored |-> "none", ncalls |-> <<"aid_identity_free">>]
    ELSE [ignored |-> "none", ncalls |-> <<>>]

(* Identity.close on object o with the native heap anc: the object and the *)
(* heap afterwards, and the native calls made.                             *)
close_keeps_handle(o, anc) ==
    IF o.handle # None
    THEN [obj |-> o, anchors |-> aid_identity_free(anc, o.handle),
          bad |-> ~IsLive(anc, o.handle), ncalls |-> <<"aid_identity_free">>]
    ELSE [obj |-> o, anchors |-> anc, bad |-> FALSE, ncalls |-> <<>>]

close(o, anc) ==
    IF o.handle # None
    THEN [obj |-> [o EXCEPT !.handle = None],
          anchors |-> aid_identity_free(anc, o.handle),
          bad |-> ~IsLive(anc, o.handle), ncalls |-> <<"aid_identity_free">>]
    ELSE [obj |-> o, anchors |-> anc, bad |-> FALSE, ncalls |-> <<>>]

(* Identity.__exit__: calls close whatever the exit in flight is. *)
exit_skips_close_on_error(o, anc, how) ==
    IF how = "raise"
    THEN [obj |-> o, anchors |-> anc, bad |-> FALSE, ncalls |-> <<>>]
    ELSE close(o, anc)

Identity_exit(o, anc, how) == close(o, anc)

(* Where control is after a call that raised exc: inside with-blocks the   *)
(* exception leaves them innermost first; outside, the caller catches it.  *)
FlowAfter(exc) ==
    IF exc.kind # "none" /\ wstack # <<>> THEN "raise" ELSE "run"

(* A JSON document as a Python str: the record it serialises, the raw    *)
(* text that follows it, and whether the document itself is well formed.   *)
NoText == [shape |-> "none"]
JsonText(d) == [shape |-> "record", doc |-> d, tail |-> <<>>]

(* The record of a call of the binding: the operation, the object it was   *)
(* called on, the exception raised, the value returned, the native         *)
(* functions called, the text and the argument of the call, and the        *)
(* engine's clock during it.  For a verification of a grant that carries   *)
(* max_uses, uses is what a ledger of verifications would have counted:    *)
(* the calls made so far in a row with this grant, this capability and     *)
(* this time (at most MaxUses are told apart), and first is the outcome of *)
(* the first of them.                                                      *)
Outcome(exc, ret) == IF exc.kind = "none" THEN ret ELSE exc.kind

Counted(op, text) ==
    /\ op = "verify_trust_grant"
    /\ text.shape = "record"
    /\ "max_uses" \in DOMAIN text.doc
    /\ text.doc.max_uses # NoTime

Repeats(op, text, arg) ==
    /\ last.uses > 0
    /\ last.op = op
    /\ last.text = text
    /\ last.arg = arg
    /\ last.time = now

Call(op, i, exc, ret, val, ncalls, text, arg) ==
    [op |-> op, obj |-> i, exc |-> exc,
     ret |-> IF exc.kind = "none" THEN ret ELSE "none",
     val |-> IF exc.kind = "none" THEN val ELSE <<>>,
     ncalls |-> ncalls, text |-> text, arg |-> arg, time |-> now,
     uses |-> IF ~Counted(op, text) THEN 0
              ELSE IF ~Repeats(op, text, arg) THEN 1
              ELSE IF last.uses < MaxUses THEN last.uses + 1 ELSE MaxUses,
     first |-> IF ~Counted(op, text) THEN "none"
               ELSE IF ~Repeats(op, text, arg) THEN Outcome(exc, ret)
               ELSE last.first]

(* The outcome of a call that returns a library-owned string: _check, then *)
(* _take_string.                                                           *)
StringCall(fname, r, bad) ==
    IF check(r.rc).kind # "none"
    THEN [exc |-> check(r.rc), val |-> <<>>, ncalls |-> <<fname>>, bad |-> bad]
    ELSE [exc |-> take_string(r.out).exc, val |-> take_string(r.out).val,
          ncalls |-> <<fname>> \o take_string(r.out).ncalls, bad |-> bad]

Raised(exc) == [exc |-> exc, val |-> <<>>, ncalls |-> <<>>, bad |-> FALSE]

BadHandle(anc, h) == h # None /\ ~IsLive(anc, h)

(* Identity.identity_id and Identity.public_key: the possible outcomes. *)
(* identity_id reading the key instead of the id. *)
identity_id_reads_public_key(o, anc) ==
    IF require_handle(o).kind # "none" THEN {Raised(require_handle(o))}
    ELSE {StringCall("aid_identity_get_public_key", r, BadHandle(anc, o.handle)) :
            r \in aid_identity_get_public_key(anc, o.handle)}

identity_id(o, anc) ==
    IF require_handle(o).kind # "none" THEN {Raised(require_handle(o))}
    ELSE {StringCall("aid_identity_get_id", r, BadHandle(anc, o.handle)) :
            r \in aid_identity_get_id(anc, o.handle)}

public_key(o, anc) ==
    IF require_handle(o).kind # "none" THEN {Raised(require_handle(o))}
    ELSE {StringCall("aid_identity_get_public_key", r, BadHandle(anc, o.handle)) :
            r \in aid_identity_get_public_key(anc, o.handle)}

----------------------------------------------------------------------------
(* The engine's records (specification, sections 3 and 4.1).  A field     *)
(* that is absent is the empty sequence, an absent time is NoTime.         *)

(* The canonical form of a receipt: every field but receipt_hash and      *)
(* signature, in a fixed order.                                            *)
CanonicalNoPrevious(d) ==
    [id |-> d.id, actor |-> d.actor, actor_key |-> d.actor_key,
     action_type |-> d.action_type, description |-> d.description,
     data |-> d.data, timestamp |-> d.timestamp, previous_receipt |-> <<>>]

Canonical(d) ==
    [id |-> d.id, actor |-> d.actor, actor_key |-> d.actor_key,
     action_type |-> d.action_type, description |-> d.description,
     data |-> d.data, timestamp |-> d.timestamp,
     previous_receipt |-> d.previous_receipt]

(* The content hash and the Ed25519 signature, as ideal functions of the   *)
(* bytes they cover: equal exactly when the bytes are equal, and a         *)
(* signature verifies exactly under the public key of the pair that made   *)
(* it.                                                                     *)
Hash(c) == [sha |-> c]
Sign(k, c) == [by |-> k, over |-> c]
SigValid(sig, pub, c) == PubOf(sig.by) = pub /\ sig.over = c

(* A public key in its text encoding: well formed iff it decodes to the    *)
(* expected length.                                                        *)
IsKeyText(s) == Len(s) = 2 /\ s[1] = "pk_"

Receipt(k, id, at, desc, data, t, prev) ==
    LET c == [id |-> id, actor |-> IdOf(k), actor_key |-> PubOf(k),
              action_type |-> at, description |-> desc, data |-> data,
              timestamp |-> t, previous_receipt |-> prev]
    IN [id |-> id, actor |-> IdOf(k), actor_key |-> PubOf(k),
        action_type |-> at, description |-> desc, data |-> data,
        timestamp |-> t, previous_receipt |-> prev,
        receipt_hash |-> Hash(c), signature |-> Sign(k, c)]

ReceiptFields ==
    {"id", "actor", "actor_key", "action_type", "description", "data",
     "timestamp", "previous_receipt", "receipt_hash", "signature"}

(* JSON values the engine can parse as a data payload. *)
ValidJson == {<<"{k: 1}">>, <<"{1: a}">>}

(* aid_action_sign: the possible (rc, out) pairs.  n numbers the receipt,  *)
(* t is the engine's clock.                                                *)
aid_action_sign(anc, h, at, desc, data, n, t) ==
    IF h = None THEN {[rc |-> AID_ERR_NULL_PTR, out |-> NullPtr]}
    ELSE IF ~IsLive(anc, h)
    THEN {[rc |-> AID_OK, out |-> Ptr([shape |-> "garbage", tail |-> <<>>])],
          [rc |-> AID_ERR_CRYPTO, out |-> NullPtr]}
    ELSE IF at = <<>> THEN {[rc |-> c, out |-> NullPtr] : c \in ValidationRc}
    ELSE IF ~data.null /\ data.val \notin ValidJson
    THEN {[rc |-> AID_ERR_SERIALIZATION, out |-> NullPtr]}
    ELSE {[rc |-> AID_OK,
           out |-> Ptr(JsonText(Receipt(anc[h].key, <<"arec_", ToString(n)>>, at, desc,
                                        IF data.null THEN <<>> ELSE data.val, t, <<>>)))]}

(* The canonical form of a grant: every field but the signature. *)
CanonicalGrant(g) ==
    [id |-> g.id, grantor |-> g.grantor, grantor_key |-> g.grantor_key,
     grantee |-> g.grantee, grantee_key |-> g.grantee_key,
     capabilities |-> g.capabilities, not_before |-> g.not_before,
     not_after |-> g.not_after, max_uses |-> g.max_uses]

Grant(k, id, grantee, gkey, caps, nb, na, mu) ==
    LET c == [id |-> id, grantor |-> IdOf(k), grantor_key |-> PubOf(k),
              grantee |-> grantee, grantee_key |-> gkey, capabilities |-> caps,
              not_before |-> nb, not_after |-> na, max_uses |-> mu]
    IN [id |-> id, grantor |-> IdOf(k), grantor_key |-> PubOf(k),
        grantee |-> grantee, grantee_key |-> gkey, capabilities |-> caps,
        not_before |-> nb, not_after |-> na, max_uses |-> mu,
        grantor_signature |-> Sign(k, c)]

GrantFields ==
    {"id", "grantor", "grantor_key", "grantee", "grantee_key", "capabilities",
     "not_before", "not_after", "max_uses", "grantor_signature"}

(* aid_trust_grant: the possible (rc, out) pairs.  caps is the capability  *)
(* list parsed from capabilities_json.                                     *)
aid_trust_grant(anc, h, grantee, gkey, caps, n) ==
    IF h = None THEN {[rc |-> AID_ERR_NULL_PTR, out |-> NullPtr]}
    ELSE IF ~IsLive(anc, h)
    THEN {[rc |-> AID_OK, out |-> Ptr([shape |-> "garbage", tail |-> <<>>])],
          [rc |-> AID_ERR_CRYPTO, out |-> NullPtr]}
    ELSE IF caps = <<>> \/ grantee = <<>> THEN {[rc |-> c, out |-> NullPtr] : c \in ValidationRc}
    ELSE IF ~IsKeyText(gkey) THEN {[rc |-> AID_ERR_SERIALIZATION, out |-> NullPtr]}
    ELSE {[rc |-> AID_OK,
           out |-> Ptr(JsonText(Grant(anc[h].key, <<"atrust_", ToString(n)>>, grantee, gkey,
                                      caps, NoTime, NoTime, NoTime)))]}

----------------------------------------------------------------------------
(* Signing through the binding *)

(* json.dumps(data) for the payloads the model draws: {"k": 1}; {1: "a"},  *)
(* whose int key is written as the string "1"; {"k": nan}, written as the  *)
(* token NaN; and a payload holding a set, which json cannot serialise.    *)
json_dumps(d) ==
    CASE d = "kv" -> [exc |-> NoExc, val |-> <<"{k: 1}">>]
      [] d = "intkey" -> [exc |-> NoExc, val |-> <<"{1: a}">>]
      [] d = "nan" -> [exc |-> NoExc, val |-> <<"{k: NaN}">>]
      [] OTHER -> [exc |-> TypeError, val |-> <<>>]

(* Identity.sign_action(action_type, description, data): the possible      *)
(* outcomes.                                                               *)
sign_action(o, anc, at, desc, data, n, t) ==
    IF require_handle(o).kind # "none" THEN {Raised(require_handle(o))}
    ELSE IF data # "None" /\ json_dumps(data).exc.kind # "none"
    THEN {Raised(json_dumps(data).exc)}
    ELSE IF ~(Encodable(at) /\ Encodable(desc)) THEN {Raised(UnicodeEncodeError)}
    ELSE {StringCall("aid_action_sign", r, BadHandle(anc, o.handle)) :
            r \in aid_action_sign(anc, o.handle, CStr(at), CStr(desc),
                                  IF data = "None" THEN NullPtr
                                  ELSE Ptr(CStr(json_dumps(data).val)), n, t)}

(* Identity.create_trust_grant(grantee_id, grantee_key, capabilities):     *)
(* json.dumps writes the capability list with every string escaped, so the *)
(* engine parses back the list it was given.                               *)
create_trust_grant_default_caps(o, anc, grantee, gkey, caps, n) ==
    IF require_handle(o).kind # "none" THEN {Raised(require_handle(o))}
    ELSE IF ~(Encodable(grantee) /\ Encodable(gkey)) THEN {Raised(UnicodeEncodeError)}
    ELSE {StringCall("aid_trust_grant", r, BadHandle(anc, o.handle)) :
            r \in aid_trust_grant(anc, o.handle, CStr(grantee), CStr(gkey),
                                  IF caps = <<>> THEN <<<<"*">>>> ELSE caps, n)}

create_trust_grant(o, anc, grantee, gkey, caps, n) ==
    IF require_handle(o).kind # "none" THEN {Raised(require_handle(o))}
    ELSE IF ~(Encodable(grantee) /\ Encodable(gkey)) THEN {Raised(UnicodeEncodeError)}
    ELSE {StringCall("aid_trust_grant", r, BadHandle(anc, o.handle)) :
            r \in aid_trust_grant(anc, o.handle, CStr(grantee), CStr(gkey), caps, n)}

----------------------------------------------------------------------------
(* Verification *)

(* text.encode("utf-8") of a JSON text, and what the engine then reads     *)
(* through the c_char_p.                                                   *)
EncodableText(t) == t.shape = "none" \/ Encodable(t.tail)
CText(t) == IF t.shape = "none" THEN t ELSE [t EXCEPT !.tail = CString(t.tail)]

(* The engine's parse of a receipt: a JSON record with nothing after it,   *)
(* every field present, and a well-formed key.                             *)
WellFormedReceipt(ct) ==
    /\ ct.shape = "record"
    /\ ct.tail = <<>>
    /\ DOMAIN ct.doc = ReceiptFields
    /\ IsKeyText(ct.doc.actor_key)

(* aid_receipt_verify: parse, then the hash check and the signature check  *)
(* over the canonical form.                                                *)
aid_receipt_verify(ct) ==
    IF ~WellFormedReceipt(ct) THEN [rc |-> AID_ERR_SERIALIZATION, is_valid |-> 0]
    ELSE [rc |-> AID_OK,
          is_valid |-> IF /\ ct.doc.receipt_hash = Hash(Canonical(ct.doc))
                          /\ SigValid(ct.doc.signature, ct.doc.actor_key, Canonical(ct.doc))
                       THEN 1 ELSE 0]

Bool(b) == IF b THEN "True" ELSE "False"

(* verify_receipt(receipt_json) *)
verify_receipt_returns_status(t) ==
    IF ~EncodableText(t) THEN [exc |-> UnicodeEncodeError, ret |-> "none", ncalls |-> <<>>]
    ELSE [exc |-> check(aid_receipt_verify(CText(t)).rc),
          ret |-> Bool(aid_receipt_verify(CText(t)).rc = AID_OK),
          ncalls |-> <<"aid_receipt_verify">>]

verify_receipt(t) ==
    IF ~EncodableText(t) THEN [exc |-> UnicodeEncodeError, ret |-> "none", ncalls |-> <<>>]
    ELSE [exc |-> check(aid_receipt_verify(CText(t)).rc),
          ret |-> Bool(aid_receipt_verify(CText(t)).is_valid = 1),
          ncalls |-> <<"aid_receipt_verify">>]

(* Receipts a caller can hand to verify_receipt: a record d with one field *)
(* given another value of its type (an absent optional field made present, *)
(* a present one made absent), the hash and the signature left as they     *)
(* were or the hash recomputed.                                            *)
SignedFields ==
    {"id", "actor", "actor_key", "action_type", "description", "data",
     "timestamp", "previous_receipt"}

OtherValue(d, f) ==
    CASE f = "timestamp" -> d.timestamp + 1
      [] f = "actor_key" -> <<"pk_", "other">>
      [] f = "data" -> IF d.data = <<>> THEN <<"{k: 1}">> ELSE <<>>
      [] f = "previous_receipt" -> IF d.previous_receipt = <<>> THEN <<"arec_", "0">> ELSE <<>>
      [] OTHER -> d[f] \o <<"~">>

Tamper(d, f) == [d EXCEPT ![f] = OtherValue(d, f)]

Rehash(d) == [d EXCEPT !.receipt_hash = Hash(Canonical(d))]

Tails == {<<NUL, "junk">>, <<"junk">>, <<SURR>>}

Garbage == [shape |-> "garbage", tail |-> <<>>]

ReceiptInputs(t) ==
    {Garbage, [shape |-> "garbage", tail |-> <<SURR>>]} \cup
    (IF t.shape # "record" THEN {}
     ELSE {t} \cup {JsonText(Tamper(t.doc, f)) : f \in SignedFields}
              \cup {JsonText(Rehash(Tamper(t.doc, f))) : f \in SignedFields}
              \cup {JsonText([t.doc EXCEPT !.data = <<"{k: 2}">>])}
              \cup {[t EXCEPT !.tail = tl] : tl \in Tails}
              \cup {JsonText([f \in ReceiptFields \ {"signature"} |-> t.doc[f]])})

(* Capability matching (specification, section 4.5 step 5): an entry     *)
(* covers the requested capability if it equals it, if it is "*", or if it *)
(* ends in ":*" and the request begins with what precedes the "*".         *)
IsPrefix(p, s) == Len(p) <= Len(s) /\ SubSeq(s, 1, Len(p)) = p

Covers(entry, cap) ==
    \/ entry = cap
    \/ entry = <<"*">>
    \/ /\ Len(entry) >= 3
       /\ entry[Len(entry)] = "*"
       /\ entry[Len(entry) - 1] = ":"
       /\ IsPrefix(SubSeq(entry, 1, Len(entry) - 1), cap)

(* The engine's parse of a grant. *)
WellFormedGrant(ct) ==
    /\ ct.shape = "record"
    /\ ct.tail = <<>>
    /\ DOMAIN ct.doc = GrantFields
    /\ IsKeyText(ct.doc.grantor_key)
    /\ IsKeyText(ct.doc.grantee_key)

GrantSigValid(g) == SigValid(g.grantor_signature, g.grantor_key, CanonicalGrant(g))

InWindow(g, t) ==
    /\ g.not_before = NoTime \/ t >= g.not_before
    /\ g.not_after = NoTime \/ t <= g.not_after

Covered(g, cap) == \E n \in 1..Len(g.capabilities) : Covers(g.capabilities[n], cap)

(* aid_trust_verify: parse, signature, time window, use count (nothing to  *)
(* check: the call keeps no count), capability match.                      *)
aid_trust_verify(ct, ccap, t) ==
    IF ~WellFormedGrant(ct) THEN [rc |-> AID_ERR_SERIALIZATION, is_valid |-> 0]
    ELSE IF ~GrantSigValid(ct.doc) THEN [rc |-> AID_OK, is_valid |-> 0]
    ELSE IF ~InWindow(ct.doc, t) THEN [rc |-> AID_OK, is_valid |-> 0]
    ELSE IF ~Covered(ct.doc, ccap) THEN [rc |-> AID_OK, is_valid |-> 0]
    ELSE [rc |-> AID_OK, is_valid |-> 1]

(* verify_trust_grant(grant_json, capability) at time t *)
verify_trust_grant_returns_status(g, cap, t) ==
    IF ~(EncodableText(g) /\ Encodable(cap))
    THEN [exc |-> UnicodeEncodeError, ret |-> "none", ncalls |-> <<>>]
    ELSE [exc |-> check(aid_trust_verify(CText(g), CStr(cap), t).rc),
          ret |-> Bool(aid_trust_verify(CText(g), CStr(cap), t).rc = AID_OK),
          ncalls |-> <<"aid_trust_verify">>]

verify_trust_grant_counting(g, cap, t) ==
    IF ~(EncodableText(g) /\ Encodable(cap))
    THEN [exc |-> UnicodeEncodeError, ret |-> "none", ncalls |-> <<>>]
    ELSE [exc |-> check(aid_trust_verify(CText(g), CStr(cap), t).rc),
          ret |-> Bool(/\ aid_trust_verify(CText(g), CStr(cap), t).is_valid = 1
                       /\ ~(/\ Counted("verify_trust_grant", g)
                             /\ Repeats("verify_trust_grant", g, cap)
                             /\ last.uses >= g.doc.max_uses)),
          ncalls |-> <<"aid_trust_verify">>]

verify_trust_grant(g, cap, t) ==
    IF ~(EncodableText(g) /\ Encodable(cap))
    THEN [exc |-> UnicodeEncodeError, ret |-> "none", ncalls |-> <<>>]
    ELSE [exc |-> check(aid_trust_verify(CText(g), CStr(cap), t).rc),
          ret |-> Bool(aid_trust_verify(CText(g), CStr(cap), t).is_valid = 1),
          ncalls |-> <<"aid_trust_verify">>]

(* Grants a caller can hand to verify_trust_grant: grants the engine       *)
(* issued for identity 1, with and without a time window; the same with    *)
(* the signature of another key, and with the capabilities widened after   *)
(* signing; a grant followed by other text; text that is no record.        *)
GrantCapLists ==
    {<<<<"read", ":", "calendar">>>>, <<<<"read", ":", "*">>>>, <<<<"*">>>>,
     <<<<"read", ":", "calendar">>, <<"write", ":", "email">>>>}

IssuedGrants ==
    {Grant(1, <<"atrust_", "1">>, IdOf(2), PubOf(2), caps, nb, na, NoTime) :
        caps \in GrantCapLists, nb \in {NoTime, 2}, na \in {NoTime, 2}}

GrantInputs ==
    {Garbage, [shape |-> "garbage", tail |-> <<SURR>>]}
      \cup {JsonText(g) : g \in IssuedGrants}
      \cup {JsonText([g EXCEPT !.grantor_signature = Sign(2, CanonicalGrant(g))]) :
              g \in IssuedGrants}
      \cup {JsonText([g EXCEPT !.capabilities = <<<<"*">>>>]) :
              g \in {x \in IssuedGrants : x.capabilities # <<<<"*">>>> /\ x.not_after = NoTime}}
      \cup {[shape |-> "record", doc |-> g, tail |-> tl] :
              g \in {x \in IssuedGrants : x.not_before = NoTime /\ x.not_after = NoTime
                                          /\ x.capabilities = <<<<"read", ":", "calendar">>>>},
              tl \in Tails}
      \cup {JsonText([f \in GrantFields \ {"grantor_signature"} |->
                        Grant(1, <<"atrust_", "1">>, IdOf(2), PubOf(2), <<<<"*">>>>,
                              NoTime, NoTime, NoTime)[f]])}

(* The capabilities requested: read:calendar, read:email, write:calendar,  *)
(* read:calendars, write:email, delete:everything, read:calendar followed  *)
(* by U+0000 and more text, and a lone surrogate.                          *)
RequestedCaps ==
    {<<"read", ":", "calendar">>, <<"read", ":", "email">>, <<"write", ":", "calendar">>,
     <<"read", ":", "calendar", "s">>, <<"write", ":", "email">>,
     <<"delete", ":", "everything">>, <<"read", ":", "calendar", NUL, "x">>, <<SURR>>}

(* Grants whose validity changes with the clock and grants that carry     *)
(* max_uses: issued for identity 1 over read:calendar or "*", with and     *)
(* without not_before, not_after and max_uses; and the same signed by      *)
(* another key.                                                            *)
TimedGrants ==
    {Grant(1, <<"atrust_", "1">>, IdOf(2), PubOf(2), caps, nb, na, mu) :
        caps \in {<<<<"read", ":", "calendar">>>>, <<<<"*">>>>},
        nb \in {NoTime, 2}, na \in {NoTime, 1, 2}, mu \in {NoTime, 1, 2}}

TimedGrantInputs ==
    {JsonText(g) : g \in TimedGrants}
      \cup {JsonText([g EXCEPT !.grantor_signature = Sign(2, CanonicalGrant(g))]) :
              g \in {x \in TimedGrants : x.capabilities = <<<<"*">>>> /\ x.max_uses # 2}}

TimedCaps == {<<"read", ":", "calendar">>, <<"write", ":", "email">>, <<SURR>>}

(* Receipts a caller can hand to verify_receipt without having signed one  *)
(* itself: a receipt the engine issued for identity 1, and what            *)
(* ReceiptInputs makes of it.                                              *)
IssuedReceipt ==
    JsonText(Receipt(1, <<"arec_", "1">>, <<"decision">>, <<"x">>, <<>>, 1, <<>>))

----------------------------------------------------------------------------
(* The typed models and the parsing helpers:                               *)
(* src/python/src/agentic_identity/models.py                               *)

(* Python values, told apart by the one field they have: None, a str (a    *)
(* sequence of tokens), an int, a bool, a dict (a function from keys to    *)
(* values), a list, a tuple, and a str that is the text encoding of a      *)
(* signature or of a hash.                                                 *)
PyNone == [none |-> TRUE]
PyStr(x) == [s |-> x]
PyInt(x) == [n |-> x]
PyBool(x) == [b |-> x]
PyDict(x) == [d |-> x]
PyList(x) == [l |-> x]
PyTuple(x) == [t |-> x]
PyText(x) == [enc |-> x]

EmptyDict == PyDict([k \in {} |-> PyNone])

IsDict(v) == "d" \in DOMAIN v
IsStr(v) == "s" \in DOMAIN v

(* Exceptions of the interpreter. *)
AttributeError == [kind |-> "AttributeError", code |-> 0, msg |-> "object has no attribute"]
NotIterable == [kind |-> "TypeError", code |-> 0, msg |-> "object is not iterable"]
FrozenInstanceError ==
    [kind |-> "FrozenInstanceError", code |-> 0, msg |-> "cannot assign to field"]

(* dict.get(key, default) on the content of a dict. *)
get(f, key, default) == IF key \in DOMAIN f THEN f[key] ELSE default

(* str.lower() on the tokens that have an upper-case letter here. *)
LowerToken(tok) ==
    CASE tok = "Decision" -> "decision"
      [] tok = "Custom" -> "custom"
      [] OTHER -> tok

lower(x) == [i \in 1..Len(x) |-> LowerToken(x[i])]

(* tuple(v): a list or a tuple gives its items, a str its characters (one  *)
(* for every token here), None and an int are not iterable.  No input      *)
(* here has a dict in the place of a sequence.                             *)
IsIterable(v) == DOMAIN v \cap {"l", "t", "s"} # {}

tuple(v) ==
    IF "l" \in DOMAIN v THEN PyTuple(v.l)
    ELSE IF "t" \in DOMAIN v THEN v
    ELSE PyTuple([i \in 1..Len(v.s) |-> PyStr(<<v.s[i]>>)])

(* The frozen dataclasses, as the values of their fields. *)
IdentityInfo(id, key) ==
    [class |-> "IdentityInfo", identity_id |-> id, public_key |-> key,
     name |-> PyNone, created_at |-> PyStr(<<>>)]

VerificationResult(valid) ==
    [class |-> "VerificationResult", valid |-> valid, actor |-> PyStr(<<>>),
     detail |-> PyStr(<<>>)]

NoModel == [class |-> "none"]

(* ActionReceipt.is_chained *)
is_chained(rec) == rec.previous_receipt # PyNone

(* parse_receipt(data) on the content of the dict data: the exception      *)
(* raised, if any, and the ActionReceipt returned.                         *)
parse_receipt_default_empty(data) ==
    LET action == get(data, "action", EmptyDict)
        at == get(data, "action_type", PyStr(<<>>))
    IN IF ~IsStr(at) \/ ~IsDict(action)
       THEN [exc |-> AttributeError, val |-> NoModel]
       ELSE [exc |-> NoExc,
             val |-> [class |-> "ActionReceipt",
                      id |-> get(data, "id", PyStr(<<>>)),
                      actor |-> get(data, "actor", PyStr(<<>>)),
                      actor_key |-> get(data, "actor_key", PyStr(<<>>)),
                      action_type |-> PyStr(lower(at.s)),
                      description |-> get(action.d, "description", PyStr(<<>>)),
                      timestamp |-> get(data, "timestamp", PyInt(0)),
                      signature |-> get(data, "signature", PyStr(<<>>)),
                      receipt_hash |-> get(data, "receipt_hash", PyStr(<<>>)),
                      data |-> get(action.d, "data", PyNone),
                      previous_receipt |-> get(data, "previous_receipt", PyNone)]]

parse_receipt(data) ==
    LET action == get(data, "action", EmptyDict)
        at == get(data, "action_type", PyStr(<<"custom">>))
    IN IF ~IsStr(at) \/ ~IsDict(action)
       THEN [exc |-> AttributeError, val |-> NoModel]
       ELSE [exc |-> NoExc,
             val |-> [class |-> "ActionReceipt",
                      id |-> get(data, "id", PyStr(<<>>)),
                      actor |-> get(data, "actor", PyStr(<<>>)),
                      actor_key |-> get(data, "actor_key", PyStr(<<>>)),
                      action_type |-> PyStr(lower(at.s)),
                      description |-> get(action.d, "description", PyStr(<<>>)),
                      timestamp |-> get(data, "timestamp", PyInt(0)),
                      signature |-> get(data, "signature", PyStr(<<>>)),
                      receipt_hash |-> get(data, "receipt_hash", PyStr(<<>>)),
                      data |-> get(action.d, "data", PyNone),
                      previous_receipt |-> get(data, "previous_receipt", PyNone)]]

(* parse_trust_grant(data) on the content of the dict data. *)
parse_trust_grant(data) ==
    LET constraints == get(data, "constraints", EmptyDict)
        delegation == get(data, "delegation", EmptyDict)
        caps == get(data, "capabilities", PyList(<<>>))
    IN IF ~IsIterable(caps) THEN [exc |-> NotIterable, val |-> NoModel]
       ELSE IF ~IsDict(constraints) \/ ~IsDict(delegation)
       THEN [exc |-> AttributeError, val |-> NoModel]
       ELSE [exc |-> NoExc,
             val |-> [class |-> "TrustGrant",
                      id |-> get(data, "id", PyStr(<<>>)),
                      grantor |-> get(data, "grantor", PyStr(<<>>)),
                      grantee |-> get(data, "grantee", PyStr(<<>>)),
                      capabilities |-> tuple(caps),
                      signature |-> get(data, "signature", PyStr(<<>>)),
                      created_at |-> get(data, "created_at", PyStr(<<>>)),
                      not_before |-> get(constraints.d, "not_before", PyNone),
                      not_after |-> get(constraints.d, "not_after", PyNone),
                      max_uses |-> get(constraints.d, "max_uses", PyNone),
                      delegation_allowed |-> get(delegation.d, "allowed", PyBool(FALSE)),
                      max_delegation_depth |-> get(delegation.d, "max_depth", PyInt(0))]]

----------------------------------------------------------------------------
(* State *)

(* Threads of the caller.  A thread is outside the binding or between the  *)
(* engine's return and the rest of the call it is in; its frame holds the  *)
(* call's arguments, the engine's status, the outcome once the call has    *)
(* returned, the receipts returned to it so far, and the threads that were *)
(* inside a call when this call began.                                     *)
Threads == 1..MaxThreads

(* No model has been produced yet. *)
NoParsed == [op |-> "none", arg |-> <<>>, exc |-> NoExc, val |-> NoModel, made |-> NoModel]

Idle == [pc |-> "idle", op |-> "none", obj |-> 0, text |-> NoText, arg |-> <<>>,
         time |-> 0, rc |-> AID_OK, exc |-> NoExc, ret |-> "none", got |-> <<>>,
         during |-> {}, handle |-> None]

(* The output arguments of one call: the c_char_p of sign_action and the   *)
(* c_int of the verification functions.                                    *)
NoSlot == [receipt_out |-> NullPtr, is_valid |-> 0]

Init ==
    /\ files = [p \in Paths |-> NoFile]
    /\ nextKey = 0
    /\ objs = <<>>
    /\ anchors = [h \in 1..MaxObjs |-> Unalloc]
    /\ uaf = FALSE
    /\ wstack = <<>>
    /\ flow = "run"
    /\ nextRec = 0
    /\ signed = NoText
    /\ granted = NoText
    /\ now = 1
    /\ last = [op |-> "none", obj |-> 0, exc |-> NoExc, ret |-> "none", val |-> <<>>,
               ncalls |-> <<>>, text |-> NoText, arg |-> <<>>, time |-> 1,
               uses |-> 0, first |-> "none"]
    /\ frames = [th \in Threads |-> Idle]
    /\ slots = [th \in Threads |-> NoSlot]
    /\ model = NoParsed
    /\ rejected = <<>>

(* A process that starts with one container on disk, written by an        *)
(* earlier run of Identity.create.                                         *)
InitStored ==
    /\ files = [p \in Paths |-> IF p = <<"a.aid">>
                           THEN [key |-> 1, pass |-> <<"pw">>, intact |-> TRUE, made |-> IdOf(1)]
                           ELSE NoFile]
    /\ nextKey = 1
    /\ objs = <<>>
    /\ anchors = [h \in 1..MaxObjs |-> Unalloc]
    /\ uaf = FALSE
    /\ wstack = <<>>
    /\ flow = "run"
    /\ nextRec = 0
    /\ signed = NoText
    /\ granted = NoText
    /\ now = 1
    /\ last = [op |-> "none", obj |-> 0, exc |-> NoExc, ret |-> "none", val |-> <<>>,
               ncalls |-> <<>>, text |-> NoText, arg |-> <<>>, time |-> 1,
               uses |-> 0, first |-> "none"]
    /\ frames = [th \in Threads |-> Idle]
    /\ slots = [th \in Threads |-> NoSlot]
    /\ model = NoParsed
    /\ rejected = <<>>

Objs == 1..Len(objs)

InStack(i) == \E n \in 1..Len(wstack) : wstack[n] = i

CreatePaths == {<<"a.aid">>}
CreatePass == {<<"pw">>}
LoadPass == {<<"pw">>, <<"bad">>}

(* Paths and passphrases given to Identity.load: those above, the path of  *)
(* the container and its passphrase followed by U+0000 and more text, and  *)
(* a lone surrogate.                                                       *)
VaultPaths == Paths \cup {<<"a.aid", NUL, "x">>, <<SURR>>}
VaultPass == LoadPass \cup {<<"pw", NUL, "x">>, <<SURR>>}

(* Identity.create(path, passphrase): the engine generates a key pair and  *)
(* writes the container.                                                   *)
Identity_create(path, pass) ==
    /\ flow = "run"
    /\ nextKey < MaxKeys
    /\ IF ~(Encodable(pass) /\ Encodable(path))
       THEN /\ last' = Call("create", 0, UnicodeEncodeError, "none", <<>>, <<>>, NoText,
                            <<path, pass>>)
            /\ UNCHANGED <<files, nextKey>>
       ELSE LET k == nextKey + 1
                r == StringCall("aid_identity_create",
                                [rc |-> AID_OK, out |-> Ptr(IdOf(k))], FALSE)
            IN /\ files' = [files EXCEPT ![CStr(path)] =
                                [key |-> k, pass |-> CStr(pass), intact |-> TRUE,
                                 made |-> IF r.exc.kind = "none" THEN r.val ELSE <<>>]]
               /\ nextKey' = k
               /\ last' = Call("create", 0, r.exc, "str", r.val, r.ncalls, NoText,
                               <<path, pass>>)
    /\ flow' = FlowAfter(last'.exc)
    /\ UNCHANGED <<objs, anchors, uaf, wstack, nextRec, signed, granted, now>>
    /\ UNCHANGED <<frames, slots, model, rejected>>

(* Identity.load(path, passphrase): a new Identity around the handle the   *)
(* engine returns; no object when the engine reports an error.            *)
load(fs, path, pass) ==
    IF ~(Encodable(path) /\ Encodable(pass))
    THEN [exc |-> UnicodeEncodeError, ncalls |-> <<>>, key |-> 0, made |-> <<>>]
    ELSE [exc |-> check(aid_identity_load(fs, CStr(path), CStr(pass)).rc),
          ncalls |-> <<"aid_identity_load">>,
          key |-> aid_identity_load(fs, CStr(path), CStr(pass)).key,
          made |-> IF CStr(path) \in DOMAIN fs THEN fs[CStr(path)].made ELSE <<>>]

Identity_load(path, pass) ==
    /\ flow = "run"
    /\ Len(objs) < MaxObjs
    /\ LET r == load(files, path, pass)
           h == Len(objs) + 1
       IN IF r.exc.kind # "none"
          THEN /\ last' = Call("load", 0, r.exc, "none", <<>>, r.ncalls, NoText,
                               <<path, pass>>)
               /\ UNCHANGED <<objs, anchors>>
          ELSE /\ anchors' = [anchors EXCEPT ![h] = [st |-> "live", key |-> r.key, frees |-> 0]]
               /\ objs' = Append(objs, [handle |-> h, anchor |-> h, made |-> r.made])
               /\ last' = Call("load", h, NoExc, "Identity", <<>>, r.ncalls, NoText,
                               <<path, pass>>)
    /\ flow' = FlowAfter(last'.exc)
    /\ UNCHANGED <<files, nextKey, uaf, wstack, nextRec, signed, granted, now>>
    /\ UNCHANGED <<frames, slots, model, rejected>>

(* The bytes of a stored container are altered by something outside the  *)
(* library.                                                                *)
Alter_container(p) ==
    /\ flow = "run"
    /\ p \in DOMAIN files
    /\ files[p] # NoFile
    /\ files[p].intact
    /\ files' = [files EXCEPT ![p].intact = FALSE]
    /\ UNCHANGED <<nextKey, objs, anchors, uaf, wstack, flow, nextRec, signed, granted,
                   now, last>>
    /\ UNCHANGED <<frames, slots, model, rejected>>

(* Identity.close() *)
Identity_close(i) ==
    /\ flow = "run"
    /\ i \in Objs
    /\ LET c == close(objs[i], anchors)
       IN /\ objs' = [objs EXCEPT ![i] = c.obj]
          /\ anchors' = c.anchors
          /\ uaf' = (uaf \/ c.bad)
          /\ last' = Call("close", i, NoExc, "None", <<>>, c.ncalls, NoText, <<>>)
    /\ UNCHANGED <<files, nextKey, wstack, flow, nextRec, signed, granted, now>>
    /\ UNCHANGED <<frames, slots, model, rejected>>

(* Identity.__del__(): calls close. *)
Identity_del(i) ==
    /\ flow = "run"
    /\ i \in Objs
    /\ LET c == close(objs[i], anchors)
       IN /\ objs' = [objs EXCEPT ![i] = c.obj]
          /\ anchors' = c.anchors
          /\ uaf' = (uaf \/ c.bad)
          /\ last' = Call("__del__", i, NoExc, "None", <<>>, c.ncalls, NoText, <<>>)
    /\ UNCHANGED <<files, nextKey, wstack, flow, nextRec, signed, granted, now>>
    /\ UNCHANGED <<frames, slots, model, rejected>>

(* Identity(handle) called with a null handle. *)
Construct(handle) ==
    /\ flow = "run"
    /\ Len(rejected) < MaxObjs
    /\ handle = NullHandle
    /\ last' = Call("Identity", 0, Identity_init(handle).exc, "Identity", <<>>, <<>>, NoText,
                    <<handle>>)
    /\ rejected' = Append(rejected, Identity_init(handle).self)
    /\ flow' = FlowAfter(last'.exc)
    /\ UNCHANGED <<files, nextKey, objs, anchors, uaf, wstack, nextRec, signed, granted, now>>
    /\ UNCHANGED <<frames, slots, model>>

(* The garbage collector runs __del__ of an object whose __init__ raised.  *)
(* The engine ignores a null handle.                                       *)
Collect_rejected ==
    /\ rejected # <<>>
    /\ last' = Call("__del__", 0, NoExc, "None", <<>>, del_rejected(Head(rejected)).ncalls,
                    NoText, <<del_rejected(Head(rejected)).ignored>>)
    /\ rejected' = Tail(rejected)
    /\ UNCHANGED <<files, nextKey, objs, anchors, uaf, wstack, flow, nextRec, signed,
                   granted, now>>
    /\ UNCHANGED <<frames, slots, model>>

(* Identity.__enter__(): the with-statement enters the block. *)
Identity_enter(i) ==
    /\ flow = "run"
    /\ i \in Objs
    /\ ~InStack(i)
    /\ wstack' = Append(wstack, i)
    /\ last' = Call("__enter__", i, NoExc, "self", <<>>, <<>>, NoText, <<>>)
    /\ UNCHANGED <<files, nextKey, objs, anchors, uaf, flow, nextRec, signed, granted, now>>
    /\ UNCHANGED <<frames, slots, model, rejected>>

(* A return statement inside a with-block: control leaves every enclosing  *)
(* block of the function.                                                  *)
Return_stmt ==
    /\ flow = "run"
    /\ wstack # <<>>
    /\ flow' = "return"
    /\ UNCHANGED <<files, nextKey, objs, anchors, uaf, wstack, nextRec, signed,
                   granted, now, last>>
    /\ UNCHANGED <<frames, slots, model, rejected>>

(* The with-statement leaves the innermost block and calls __exit__: at    *)
(* the end of the body (flow = "run"), on a return, or with an exception   *)
(* in flight, which __exit__ does not suppress.                            *)
With_exit ==
    /\ wstack # <<>>
    /\ LET i == wstack[Len(wstack)]
           c == Identity_exit(objs[i], anchors, flow)
       IN /\ objs' = [objs EXCEPT ![i] = c.obj]
          /\ anchors' = c.anchors
          /\ uaf' = (uaf \/ c.bad)
          /\ last' = Call("__exit__", i, NoExc, "None", <<>>, c.ncalls, NoText, <<flow>>)
    /\ wstack' = SubSeq(wstack, 1, Len(wstack) - 1)
    /\ flow' = IF Len(wstack) = 1 THEN "run" ELSE flow
    /\ UNCHANGED <<files, nextKey, nextRec, signed, granted, now>>
    /\ UNCHANGED <<frames, slots, model, rejected>>

(* Reading Identity.identity_id *)
Get_identity_id(i) ==
    /\ flow = "run"
    /\ i \in Objs
    /\ \E r \in identity_id(objs[i], anchors) :
          /\ last' = Call("identity_id", i, r.exc, "str", r.val, r.ncalls, NoText, <<>>)
          /\ uaf' = (uaf \/ r.bad)
    /\ flow' = FlowAfter(last'.exc)
    /\ UNCHANGED <<files, nextKey, objs, anchors, wstack, nextRec, signed, granted, now>>
    /\ UNCHANGED <<frames, slots, model, rejected>>

(* Reading Identity.public_key *)
Get_public_key(i) ==
    /\ flow = "run"
    /\ i \in Objs
    /\ \E r \in public_key(objs[i], anchors) :
          /\ last' = Call("public_key", i, r.exc, "str", r.val, r.ncalls, NoText, <<>>)
          /\ uaf' = (uaf \/ r.bad)
    /\ flow' = FlowAfter(last'.exc)
    /\ UNCHANGED <<files, nextKey, objs, anchors, wstack, nextRec, signed, granted, now>>
    /\ UNCHANGED <<frames, slots, model, rejected>>

(* _take_string(ptr) on a pointer the engine filled in: null, a string,    *)
(* bytes that are not UTF-8.                                               *)
StringPtrs == {NullPtr, Ptr(<<"aid_", "1">>), InvalidPtr}

Take_string(ptr) ==
    /\ flow = "run"
    /\ last' = Call("_take_string", 0, take_string(ptr).exc, "str", take_string(ptr).val,
                    take_string(ptr).ncalls, NoText, <<ptr>>)
    /\ flow' = FlowAfter(last'.exc)
    /\ UNCHANGED <<files, nextKey, objs, anchors, uaf, wstack, nextRec, signed, granted, now>>
    /\ UNCHANGED <<frames, slots, model, rejected>>

(* version(), with the pointer aid_version returned. *)
Version(raw) ==
    /\ flow = "run"
    /\ last' = Call("version", 0, version(raw).exc, "str", version(raw).val,
                    version(raw).ncalls, NoText, <<raw>>)
    /\ flow' = FlowAfter(last'.exc)
    /\ UNCHANGED <<files, nextKey, objs, anchors, uaf, wstack, nextRec, signed, granted, now>>
    /\ UNCHANGED <<frames, slots, model, rejected>>

(* The arguments of sign_action the model draws: well-known and custom     *)
(* action types, with and without data; an empty action type and one that  *)
(* starts with U+0000; a description with U+0000 inside; a lone surrogate; *)
(* data that json.dumps writes as NaN, and data it cannot serialise.       *)
SignInputs ==
    {[at |-> <<"decision">>, desc |-> <<"x">>, data |-> "None"],
     [at |-> <<"audit">>, desc |-> <<"x">>, data |-> "kv"],
     [at |-> <<"decision">>, desc |-> <<"x">>, data |-> "intkey"],
     [at |-> <<"decision">>, desc |-> <<"x", NUL, "y">>, data |-> "None"],
     [at |-> <<>>, desc |-> <<"x">>, data |-> "None"],
     [at |-> <<NUL, "audit">>, desc |-> <<"x">>, data |-> "None"],
     [at |-> <<"decision">>, desc |-> <<SURR>>, data |-> "kv"],
     [at |-> <<"decision">>, desc |-> <<"x">>, data |-> "nan"],
     [at |-> <<"decision">>, desc |-> <<"x">>, data |-> "set"]}

(* sign_action releasing the handle when it fails. *)
Sign_action_closes_on_error(i, at, desc, data) ==
    /\ flow = "run"
    /\ i \in Objs
    /\ nextRec < MaxRecs
    /\ \E r \in sign_action(objs[i], anchors, at, desc, data, nextRec + 1, now) :
          /\ last' = Call("sign_action", i, r.exc, "str", <<>>, r.ncalls,
                          IF r.exc.kind = "none" THEN r.val ELSE NoText,
                          <<at, desc, data>>)
          /\ uaf' = (uaf \/ r.bad)
          /\ signed' = IF r.exc.kind = "none" THEN r.val ELSE signed
          /\ nextRec' = IF r.exc.kind = "none" THEN nextRec + 1 ELSE nextRec
    /\ flow' = FlowAfter(last'.exc)
    /\ objs' = IF last'.exc.kind = "none" THEN objs
               ELSE [objs EXCEPT ![i] = close(objs[i], anchors).obj]
    /\ anchors' = IF last'.exc.kind = "none" THEN anchors ELSE close(objs[i], anchors).anchors
    /\ UNCHANGED <<files, nextKey, wstack, granted, now>>
    /\ UNCHANGED <<frames, slots, model, rejected>>

Sign_action(i, at, desc, data) ==
    /\ flow = "run"
    /\ i \in Objs
    /\ nextRec < MaxRecs
    /\ \E r \in sign_action(objs[i], anchors, at, desc, data, nextRec + 1, now) :
          /\ last' = Call("sign_action", i, r.exc, "str", <<>>, r.ncalls,
                          IF r.exc.kind = "none" THEN r.val ELSE NoText,
                          <<at, desc, data>>)
          /\ uaf' = (uaf \/ r.bad)
          /\ signed' = IF r.exc.kind = "none" THEN r.val ELSE signed
          /\ nextRec' = IF r.exc.kind = "none" THEN nextRec + 1 ELSE nextRec
    /\ flow' = FlowAfter(last'.exc)
    /\ UNCHANGED <<files, nextKey, objs, anchors, wstack, granted, now>>
    /\ UNCHANGED <<frames, slots, model, rejected>>

(* ident.sign_action(action_type, description, None, previous): the       *)
(* method takes self, action_type, description and data, so binding a     *)
(* fourth argument (or the keyword previous_receipt) fails in the          *)
(* interpreter before the body runs, and no native call is made.           *)
ArgumentError ==
    [kind |-> "TypeError", code |-> 0, msg |-> "takes from 3 to 4 positional arguments"]

Sign_action_previous(i, at, desc, prev) ==
    /\ flow = "run"
    /\ i \in Objs
    /\ last' = Call("sign_action", i, ArgumentError, "none", <<>>, <<>>, NoText,
                    <<at, desc, "None", prev>>)
    /\ flow' = FlowAfter(last'.exc)
    /\ UNCHANGED <<files, nextKey, objs, anchors, uaf, wstack, nextRec, signed,
                   granted, now>>
    /\ UNCHANGED <<frames, slots, model, rejected>>

Create_trust_grant(i, g, caps) ==
    /\ flow = "run"
    /\ i \in Objs
    /\ nextRec < MaxRecs
    /\ \E r \in create_trust_grant(objs[i], anchors, g.id, g.key, caps, nextRec + 1) :
          /\ last' = Call("create_trust_grant", i, r.exc, "str", <<>>, r.ncalls,
                          IF r.exc.kind = "none" THEN r.val ELSE NoText,
                          <<g.id, g.key, caps>>)
          /\ uaf' = (uaf \/ r.bad)
          /\ granted' = IF r.exc.kind = "none" THEN r.val ELSE granted
          /\ nextRec' = IF r.exc.kind = "none" THEN nextRec + 1 ELSE nextRec
    /\ flow' = FlowAfter(last'.exc)
    /\ UNCHANGED <<files, nextKey, objs, anchors, wstack, signed, now>>
    /\ UNCHANGED <<frames, slots, model, rejected>>

Verify_receipt(t) ==
    /\ flow = "run"
    /\ LET r == verify_receipt(t)
       IN last' = Call("verify_receipt", 0, r.exc, r.ret, <<>>, r.ncalls, t, <<>>)
    /\ flow' = FlowAfter(last'.exc)
    /\ UNCHANGED <<files, nextKey, objs, anchors, uaf, wstack, nextRec, signed, granted, now>>
    /\ UNCHANGED <<frames, slots, model, rejected>>

Verify_trust_grant(g, cap) ==
    /\ flow = "run"
    /\ LET r == verify_trust_grant(g, cap, now)
       IN last' = Call("verify_trust_grant", 0, r.exc, r.ret, <<>>, r.ncalls, g, cap)
    /\ flow' = FlowAfter(last'.exc)
    /\ UNCHANGED <<files, nextKey, objs, anchors, uaf, wstack, nextRec, signed, granted, now>>
    /\ UNCHANGED <<frames, slots, model, rejected>>

(* The engine's clock advances. *)
Tick ==
    /\ now < MaxTime
    /\ now' = now + 1
    /\ UNCHANGED <<files, nextKey, objs, anchors, uaf, wstack, flow, nextRec, signed,
                   granted, last>>
    /\ UNCHANGED <<frames, slots, model, rejected>>

----------------------------------------------------------------------------
(* The typed models in use: parsing, constructing, assigning. *)

Restrict(f, K) == [k \in K |-> f[k]]
Put(f, k, v) == [x \in DOMAIN f \cup {k} |-> IF x = k THEN v ELSE f[x]]

(* The dict of tests/test_models.py, TestParseReceipt.test_full_data. *)
FullReceipt ==
    [id |-> PyStr(<<"arec_test">>), actor |-> PyStr(<<"aid_actor">>),
     actor_key |-> PyStr(<<"pk==">>), action_type |-> PyStr(<<"Decision">>),
     action |-> PyDict([description |-> PyStr(<<"deploy v2">>),
                        data |-> PyDict([version |-> PyInt(2)])]),
     timestamp |-> PyInt(12345), signature |-> PyStr(<<"sig==">>),
     receipt_hash |-> PyStr(<<"hash123">>), previous_receipt |-> PyStr(<<"arec_prev">>)]

(* Dicts with other values in the place of the expected ones. *)
OddReceipts ==
    {[action_type |-> PyNone],
     [action |-> PyNone],
     [previous_receipt |-> PyNone],
     [action |-> EmptyDict],
     [action |-> PyDict([description |-> PyStr(<<"deploy v2">>)])],
     [description |-> PyStr(<<"top level">>), data |-> PyDict([version |-> PyInt(2)])],
     [action_type |-> PyStr(<<"audit">>), timestamp |-> PyNone]}

ReceiptDicts == {Restrict(FullReceipt, K) : K \in SUBSET DOMAIN FullReceipt} \cup OddReceipts

(* The dict of tests/test_models.py, TestParseTrustGrant.test_full_data. *)
FullGrant ==
    [id |-> PyStr(<<"atrust_test">>), grantor |-> PyStr(<<"aid_g1">>),
     grantee |-> PyStr(<<"aid_g2">>),
     capabilities |-> PyList(<<PyStr(<<"read", ":", "*">>), PyStr(<<"write", ":", "*">>)>>),
     signature |-> PyStr(<<"sig==">>), created_at |-> PyStr(<<"2026-01-01">>),
     constraints |-> PyDict([not_before |-> PyStr(<<"2026-01-01">>),
                             not_after |-> PyStr(<<"2026-12-31">>),
                             max_uses |-> PyInt(100)]),
     delegation |-> PyDict([allowed |-> PyBool(TRUE), max_depth |-> PyInt(3)])]

OddGrants ==
    {[capabilities |-> PyNone],
     [constraints |-> PyNone],
     [delegation |-> PyNone],
     [constraints |-> PyDict([max_uses |-> PyInt(100)]), delegation |-> EmptyDict],
     [delegation |-> PyDict([allowed |-> PyBool(TRUE)])],
     [capabilities |-> PyStr(<<"r", "w">>)],
     [capabilities |-> PyTuple(<<PyStr(<<"read", ":", "*">>)>>)]}

GrantDicts == {Restrict(FullGrant, K) : K \in SUBSET DOMAIN FullGrant} \cup OddGrants

(* model = parse_receipt(d) *)
Parse_receipt(d) ==
    /\ model' = [op |-> "parse_receipt", arg |-> d, exc |-> parse_receipt(d).exc,
                 val |-> parse_receipt(d).val, made |-> parse_receipt(d).val]
    /\ UNCHANGED <<files, nextKey, objs, anchors, uaf, wstack, flow, nextRec, signed,
                   granted, now, last, frames, slots, rejected>>

(* model = parse_trust_grant(d) *)
Parse_trust_grant(d) ==
    /\ model' = [op |-> "parse_trust_grant", arg |-> d, exc |-> parse_trust_grant(d).exc,
                 val |-> parse_trust_grant(d).val, made |-> parse_trust_grant(d).val]
    /\ UNCHANGED <<files, nextKey, objs, anchors, uaf, wstack, flow, nextRec, signed,
                   granted, now, last, frames, slots, rejected>>

(* model = IdentityInfo(identity_id=id, public_key=key) *)
Make_identity_info(id, key) ==
    /\ model' = [op |-> "IdentityInfo", arg |-> <<id, key>>, exc |-> NoExc,
                 val |-> IdentityInfo(id, key), made |-> IdentityInfo(id, key)]
    /\ UNCHANGED <<files, nextKey, objs, anchors, uaf, wstack, flow, nextRec, signed,
                   granted, now, last, frames, slots, rejected>>

(* model = VerificationResult(valid=valid) *)
Make_verification_result(valid) ==
    /\ model' = [op |-> "VerificationResult", arg |-> <<valid>>, exc |-> NoExc,
                 val |-> VerificationResult(valid), made |-> VerificationResult(valid)]
    /\ UNCHANGED <<files, nextKey, objs, anchors, uaf, wstack, flow, nextRec, signed,
                   granted, now, last, frames, slots, rejected>>

(* model.field = value: the dataclasses are frozen, so __setattr__ raises  *)
(* and the field keeps its value.                                          *)
Set_field(field, value) ==
    /\ model.val.class # "none"
    /\ field \in DOMAIN model.val \ {"class"}
    /\ model' = [model EXCEPT !.op = "setattr", !.exc = FrozenInstanceError]
    /\ UNCHANGED <<files, nextKey, objs, anchors, uaf, wstack, flow, nextRec, signed,
                   granted, now, last, frames, slots, rejected>>

(* model.data[key] = value on a receipt: parse_receipt stored the dict it  *)
(* found under "action" / "data" itself, not a copy, and a dict is         *)
(* mutable, so the item is assigned in the one dict the receipt and the    *)
(* parsed input share.                                                     *)
Data_setitem(key, value) ==
    /\ model.val.class = "ActionReceipt"
    /\ IsDict(model.val.data)
    /\ model' = [model EXCEPT
                    !.op = "setitem", !.exc = NoExc,
                    !.val.data = PyDict(Put(@.d, key, value)),
                    !.arg = [@ EXCEPT !.action =
                               PyDict([@.d EXCEPT !.data = PyDict(Put(@.d, key, value))])]]
    /\ UNCHANGED <<files, nextKey, objs, anchors, uaf, wstack, flow, nextRec, signed,
                   granted, now, last, frames, slots, rejected>>

(* json.loads of a receipt the engine returned: the layout of the engine's *)
(* JSON as tests/test_identity.py writes it out (a capitalised            *)
(* action_type, the description and the data nested under "action").       *)
Title(tok) == IF tok = "decision" THEN "Decision" ELSE tok

DataValue(x) ==
    CASE x = <<>> -> PyNone
      [] x = <<"{k: 1}">> -> PyDict([k |-> PyInt(1)])
      [] OTHER -> PyDict("1" :> PyStr(<<"a">>))

json_loads_receipt(doc) ==
    [id |-> PyStr(doc.id), actor |-> PyStr(doc.actor), actor_key |-> PyStr(doc.actor_key),
     action_type |-> PyStr([i \in 1..Len(doc.action_type) |-> Title(doc.action_type[i])]),
     action |-> PyDict([description |-> PyStr(doc.description),
                        data |-> DataValue(doc.data),
                        references |-> PyList(<<>>)]),
     timestamp |-> PyInt(doc.timestamp), context_hash |-> PyNone,
     previous_receipt |-> IF doc.previous_receipt = <<>> THEN PyNone
                          ELSE PyStr(doc.previous_receipt),
     receipt_hash |-> PyText(doc.receipt_hash), signature |-> PyText(doc.signature),
     witnesses |-> PyList(<<>>)]

(* json.loads of a grant the engine returned: the signature is under the   *)
(* key "grantor_signature" (tests/test_identity.py) and every capability   *)
(* is an object with the key "uri" (examples/python_example.py).           *)
Optional(x) == IF x = NoTime THEN PyNone ELSE PyInt(x)

json_loads_grant(doc) ==
    [id |-> PyStr(doc.id), grantor |-> PyStr(doc.grantor),
     grantor_key |-> PyStr(doc.grantor_key), grantee |-> PyStr(doc.grantee),
     grantee_key |-> PyStr(doc.grantee_key),
     capabilities |-> PyList([i \in 1..Len(doc.capabilities) |->
                                 PyDict([uri |-> PyStr(doc.capabilities[i])])]),
     constraints |-> PyDict([not_before |-> Optional(doc.not_before),
                             not_after |-> Optional(doc.not_after),
                             max_uses |-> Optional(doc.max_uses)]),
     grantor_signature |-> PyText(doc.grantor_signature)]

(* parse_receipt(json.loads(receipt_json)) on the latest receipt. *)
Parse_signed ==
    /\ signed.shape = "record"
    /\ Parse_receipt(json_loads_receipt(signed.doc))

(* parse_trust_grant(json.loads(grant_json)) on the latest grant. *)
Parse_granted ==
    /\ granted.shape = "record"
    /\ Parse_trust_grant(json_loads_grant(granted.doc))

AssignedFields == {"id", "valid", "identity_id", "signature", "data", "capabilities"}

NextModels ==
    \/ \E d \in ReceiptDicts : Parse_receipt(d)
    \/ \E d \in GrantDicts : Parse_trust_grant(d)
    \/ Make_identity_info(PyStr(<<"aid_x">>), PyStr(<<"key">>))
    \/ \E b \in BOOLEAN : Make_verification_result(PyBool(b))
    \/ \E f \in AssignedFields : Set_field(f, PyStr(<<"changed">>))
    \/ Data_setitem("version", PyInt(3))

SpecModels == Init /\ [][NextModels]_vars

----------------------------------------------------------------------------
(* Calls made from several threads.  ctypes releases the interpreter lock  *)
(* around a foreign call, so the calls of two threads overlap: a call is   *)
(* two steps, up to the engine's return and from there to its own return.  *)
(* The engine's part of a call is one step: that it numbers receipts       *)
(* without a race is the specification's (section 7).                      *)

(* One c_char_p and one c_int for every thread, shared by all. *)
receipt_out_shared(th) == 1
is_valid_shared(th) == 1

(* The output argument of the call thread th is in: a local of the call,   *)
(* so one for every call in progress.                                      *)
receipt_out(th) == th
is_valid(th) == th

Begun(th, op, i, text, arg, rc) ==
    [frames[th] EXCEPT !.pc = "called", !.op = op, !.obj = i, !.text = text,
                       !.arg = arg, !.time = now, !.rc = rc, !.exc = NoExc,
                       !.ret = "none",
                       !.during = {u \in Threads \ {th} : frames[u].pc = "called"}]

(* A call that raised before it reached the engine. *)
Failed(th, op, i, text, arg, exc) ==
    [frames[th] EXCEPT !.pc = "idle", !.op = op, !.obj = i, !.text = text,
                       !.arg = arg, !.time = now, !.rc = AID_OK, !.exc = exc,
                       !.ret = "none",
                       !.during = {u \in Threads \ {th} : frames[u].pc = "called"}]

(* Identity.sign_action(action_type, "x") up to the return of              *)
(* aid_action_sign.                                                        *)
Sign_begin(th, i, at) ==
    /\ frames[th].pc = "idle"
    /\ i \in Objs
    /\ nextRec < MaxRecs
    /\ IF require_handle(objs[i]).kind # "none"
       THEN /\ frames' = [frames EXCEPT ![th] =
                             Failed(th, "sign_action", i, NoText, at, require_handle(objs[i]))]
            /\ UNCHANGED <<slots, nextRec>>
       ELSE IF ~Encodable(at)
       THEN /\ frames' = [frames EXCEPT ![th] =
                             Failed(th, "sign_action", i, NoText, at, UnicodeEncodeError)]
            /\ UNCHANGED <<slots, nextRec>>
       ELSE \E r \in aid_action_sign(anchors, objs[i].handle, CStr(at), <<"x">>, NullPtr,
                                     nextRec + 1, now) :
              /\ slots' = [slots EXCEPT ![receipt_out(th)].receipt_out = r.out]
              /\ frames' = [frames EXCEPT ![th] =
                               Begun(th, "sign_action", i, NoText, at, r.rc)]
              /\ nextRec' = IF r.rc = AID_OK THEN nextRec + 1 ELSE nextRec
    /\ UNCHANGED <<files, nextKey, objs, anchors, uaf, wstack, flow, signed, granted, now,
                   last, model, rejected>>

(* sign_action from the return of aid_action_sign: _check(rc) and          *)
(* _take_string(receipt_out).                                              *)
Sign_end(th) ==
    /\ frames[th].pc = "called"
    /\ frames[th].op = "sign_action"
    /\ LET r == StringCall("aid_action_sign",
                           [rc |-> frames[th].rc,
                            out |-> slots[receipt_out(th)].receipt_out], FALSE)
       IN frames' = [frames EXCEPT ![th] =
                       [@ EXCEPT !.pc = "idle", !.exc = r.exc,
                                 !.ret = IF r.exc.kind = "none" THEN "str" ELSE "none",
                                 !.text = IF r.exc.kind = "none" THEN r.val ELSE NoText,
                                 !.got = IF r.exc.kind = "none" THEN Append(@, r.val) ELSE @]]
    /\ UNCHANGED <<files, nextKey, objs, anchors, uaf, wstack, flow, nextRec, signed, granted,
                   now, last, slots, model, rejected>>

(* verify_receipt(t) up to the return of aid_receipt_verify: is_valid is   *)
(* created as 0 and the engine writes its verdict to it.                   *)
Verify_receipt_begin(th, t) ==
    /\ frames[th].pc = "idle"
    /\ IF ~EncodableText(t)
       THEN /\ frames' = [frames EXCEPT ![th] =
                             Failed(th, "verify_receipt", 0, t, <<>>, UnicodeEncodeError)]
            /\ UNCHANGED slots
       ELSE /\ slots' = [slots EXCEPT ![is_valid(th)].is_valid =
                                         aid_receipt_verify(CText(t)).is_valid]
            /\ frames' = [frames EXCEPT ![th] =
                             Begun(th, "verify_receipt", 0, t, <<>>,
                                   aid_receipt_verify(CText(t)).rc)]
    /\ UNCHANGED <<files, nextKey, objs, anchors, uaf, wstack, flow, nextRec, signed, granted,
                   now, last, model, rejected>>

(* verify_trust_grant(g, cap) up to the return of aid_trust_verify. *)
Verify_trust_grant_begin(th, g, cap) ==
    /\ frames[th].pc = "idle"
    /\ IF ~(EncodableText(g) /\ Encodable(cap))
       THEN /\ frames' = [frames EXCEPT ![th] =
                             Failed(th, "verify_trust_grant", 0, g, cap, UnicodeEncodeError)]
            /\ UNCHANGED slots
       ELSE /\ slots' = [slots EXCEPT ![is_valid(th)].is_valid =
                                         aid_trust_verify(CText(g), CStr(cap), now).is_valid]
            /\ frames' = [frames EXCEPT ![th] =
                             Begun(th, "verify_trust_grant", 0, g, cap,
                                   aid_trust_verify(CText(g), CStr(cap), now).rc)]
    /\ UNCHANGED <<files, nextKey, objs, anchors, uaf, wstack, flow, nextRec, signed, granted,
                   now, last, model, rejected>>

(* Either verification function from the engine's return: _check(rc) and   *)
(* return is_valid.value == 1.                                             *)
Verify_end(th) ==
    /\ frames[th].pc = "called"
    /\ frames[th].op \in {"verify_receipt", "verify_trust_grant"}
    /\ frames' = [frames EXCEPT ![th] =
                    [@ EXCEPT !.pc = "idle", !.exc = check(frames[th].rc),
                              !.ret = IF check(frames[th].rc).kind = "none"
                                      THEN Bool(slots[is_valid(th)].is_valid = 1)
                                      ELSE "none"]]
    /\ UNCHANGED <<files, nextKey, objs, anchors, uaf, wstack, flow, nextRec, signed, granted,
                   now, last, slots, model, rejected>>

----------------------------------------------------------------------------
Next ==
    \/ \E p \in Paths, w \in LoadPass : Identity_load(p, w)
    \/ \E i \in 1..MaxObjs : Identity_close(i)
    \/ \E i \in 1..MaxObjs : Identity_del(i)
    \/ \E i \in 1..MaxObjs : Identity_enter(i)
    \/ Return_stmt
    \/ With_exit
    \/ \E i \in 1..MaxObjs : Get_identity_id(i)
    \/ \E i \in 1..MaxObjs : Get_public_key(i)
    \/ \E i \in 1..MaxObjs, at \in {<<"decision">>, <<>>}, x \in {"None", "set"} :
          Sign_action(i, at, <<"x">>, x)
    \/ \E i \in 1..MaxObjs, c \in {<<>>, <<<<"read", ":", "calendar">>>>} :
          \E k \in 1..MaxKeys : Create_trust_grant(i, [id |-> IdOf(k), key |-> PubOf(k)], c)

Spec == InitStored /\ [][Next]_vars

(* Creating and loading identities, signing actions, and verifying the   *)
(* receipts returned, as they are and altered.                             *)
NextReceipt ==
    \/ \E p \in CreatePaths, w \in CreatePass : Identity_create(p, w)
    \/ \E p \in Paths, w \in LoadPass : Identity_load(p, w)
    \/ \E i \in 1..MaxObjs, a \in SignInputs : Sign_action(i, a.at, a.desc, a.data)
    \/ \E t \in ReceiptInputs(signed) : Verify_receipt(t)

SpecReceipt == Init /\ [][NextReceipt]_vars

(* Signing with and without a reference to an earlier receipt: the id of  *)
(* the first receipt issued, and an id no receipt has.                     *)
PreviousIds == {<<"arec_", "1">>, <<"arec_", "9">>}

ChainInputs ==
    {[at |-> <<"decision">>, desc |-> <<"x">>, data |-> "None"],
     [at |-> <<"audit">>, desc |-> <<"y">>, data |-> "kv"]}

NextChain ==
    \/ \E p \in CreatePaths, w \in CreatePass : Identity_create(p, w)
    \/ \E p \in Paths, w \in LoadPass : Identity_load(p, w)
    \/ \E i \in 1..MaxObjs, a \in ChainInputs : Sign_action(i, a.at, a.desc, a.data)
    \/ \E i \in 1..MaxObjs, a \in ChainInputs, prev \in PreviousIds :
          Sign_action_previous(i, a.at, a.desc, prev)
    \/ Verify_receipt(signed)

SpecChain == Init /\ [][NextChain]_vars

(* Records signed through the binding, decoded and parsed. *)
NextParse ==
    \/ \E p \in Paths, w \in LoadPass : Identity_load(p, w)
    \/ \E i \in 1..MaxObjs, a \in ChainInputs : Sign_action(i, a.at, a.desc, a.data)
    \/ \E i \in 1..MaxObjs, caps \in GrantCapLists :
          Create_trust_grant(i, [id |-> IdOf(2), key |-> PubOf(2)], caps)
    \/ Parse_signed
    \/ Parse_granted

SpecParse == InitStored /\ [][NextParse]_vars

(* Verification of records received from others, as the clock advances. *)
NextVerify ==
    \/ \E g \in GrantInputs, c \in RequestedCaps : Verify_trust_grant(g, c)
    \/ \E t \in ReceiptInputs(IssuedReceipt) : Verify_receipt(t)
    \/ Tick

SpecVerify == Init /\ [][NextVerify]_vars

(* Containers: created, altered on disk, loaded, and the identities read. *)
NextVault ==
    \/ \E p \in CreatePaths, w \in CreatePass : Identity_create(p, w)
    \/ \E p \in Paths : Alter_container(p)
    \/ \E p \in VaultPaths, w \in VaultPass : Identity_load(p, w)
    \/ \E i \in 1..MaxObjs : Get_identity_id(i)
    \/ \E i \in 1..MaxObjs : Get_public_key(i)
    \/ \E i \in 1..MaxObjs : Identity_close(i)

SpecVault == Init /\ [][NextVault]_vars

(* Grantees named to create_trust_grant: the id and key of an identity,   *)
(* that id followed by U+0000 and more text, and a lone surrogate.         *)
GranteeInputs ==
    {[id |-> IdOf(2), key |-> PubOf(2)],
     [id |-> IdOf(2) \o <<NUL, "x">>, key |-> PubOf(2)],
     [id |-> <<SURR>>, key |-> PubOf(2)]}

(* Identities created and loaded, and records signed with them. *)
NextRecords ==
    \/ \E p \in CreatePaths, w \in CreatePass : Identity_create(p, w)
    \/ \E p \in CreatePaths, w \in CreatePass : Identity_load(p, w)
    \/ \E i \in 1..MaxObjs : Identity_close(i)
    \/ \E i \in 1..MaxObjs, at \in {<<"decision">>, <<>>} :
          Sign_action(i, at, <<"x">>, "None")
    \/ \E i \in 1..MaxObjs, g \in GranteeInputs :
          Create_trust_grant(i, g, <<<<"read", ":", "calendar">>>>)

SpecRecords == Init /\ [][NextRecords]_vars

(* Repeated verification of grants with a time window or a use limit, as   *)
(* the clock advances.                                                     *)
NextGrantLife ==
    \/ \E g \in TimedGrantInputs, c \in TimedCaps : Verify_trust_grant(g, c)
    \/ Tick

SpecGrantLife == Init /\ [][NextGrantLife]_vars

(* The whole of an Identity's interface and the verification functions,    *)
(* on identities loaded from the stored container.                         *)
NextAccessors ==
    \/ Identity_load(<<"a.aid">>, <<"pw">>)
    \/ \E i \in 1..MaxObjs : Identity_close(i)
    \/ \E i \in 1..MaxObjs : Identity_del(i)
    \/ \E i \in 1..MaxObjs : Identity_enter(i)
    \/ Return_stmt
    \/ With_exit
    \/ \E i \in 1..MaxObjs : Get_identity_id(i)
    \/ \E i \in 1..MaxObjs : Get_public_key(i)
    \/ \E i \in 1..MaxObjs, at \in {<<"decision">>, <<>>} :
          Sign_action(i, at, <<"x">>, "None")
    \/ \E i \in 1..MaxObjs, c \in {<<>>, <<<<"read", ":", "calendar">>>>} :
          Create_trust_grant(i, [id |-> IdOf(2), key |-> PubOf(2)], c)
    \/ \E t \in {IssuedReceipt, Garbage} : Verify_receipt(t)
    \/ \E g \in {JsonText(Grant(1, <<"atrust_", "1">>, IdOf(2), PubOf(2),
                                  <<<<"read", ":", "calendar">>>>, NoTime, NoTime, NoTime)),
                   Garbage} :
          Verify_trust_grant(g, <<"read", ":", "calendar">>)

SpecAccessors == InitStored /\ [][NextAccessors]_vars

(* One Identity used and closed from several threads.  The binding holds   *)
(* no lock, and the interpreter can switch threads between any two         *)
(* bytecodes and does so around every foreign call, so each read of        *)
(* self._handle, each native call and each assignment is a step.           *)

(* close(): the test "self._handle is not None". *)
Close_check(th, i) ==
    /\ frames[th].pc = "idle"
    /\ i \in Objs
    /\ frames' = [frames EXCEPT ![th] =
                     IF objs[i].handle = None
                     THEN [Failed(th, "close", i, NoText, <<>>, NoExc) EXCEPT !.ret = "None"]
                     ELSE [Begun(th, "close", i, NoText, <<>>, AID_OK) EXCEPT
                              !.pc = "freeing"]]
    /\ UNCHANGED <<files, nextKey, objs, anchors, uaf, wstack, flow, nextRec, signed, granted,
                   now, last, slots, model, rejected>>

(* close(): _lib.aid_identity_free(self._handle), with the handle the      *)
(* object holds at this moment; the engine ignores a null handle.          *)
Close_free(th) ==
    /\ frames[th].pc = "freeing"
    /\ LET h == objs[frames[th].obj].handle
       IN /\ anchors' = IF h = None THEN anchors ELSE aid_identity_free(anchors, h)
          /\ uaf' = (uaf \/ BadHandle(anchors, h))
          /\ frames' = [frames EXCEPT ![th].pc = "freed", ![th].handle = h]
    /\ UNCHANGED <<files, nextKey, objs, wstack, flow, nextRec, signed, granted,
                   now, last, slots, model, rejected>>

(* close(): self._handle = None, and the return. *)
Close_end(th) ==
    /\ frames[th].pc = "freed"
    /\ objs' = [objs EXCEPT ![frames[th].obj].handle = None]
    /\ frames' = [frames EXCEPT ![th].pc = "idle", ![th].ret = "None"]
    /\ UNCHANGED <<files, nextKey, anchors, uaf, wstack, flow, nextRec, signed, granted,
                   now, last, slots, model, rejected>>

(* The methods that pass the handle to the engine. *)
HandleUsers == {"identity_id", "public_key", "sign_action", "create_trust_grant"}

(* handle = self._require_handle() *)
Use_check(th, i, op) ==
    /\ frames[th].pc = "idle"
    /\ i \in Objs
    /\ op \in {"sign_action", "create_trust_grant"} => nextRec < MaxRecs
    /\ frames' = [frames EXCEPT ![th] =
                     IF require_handle(objs[i]).kind # "none"
                     THEN Failed(th, op, i, NoText, <<>>, require_handle(objs[i]))
                     ELSE [Begun(th, op, i, NoText, <<>>, AID_OK) EXCEPT
                              !.pc = "checked", !.handle = objs[i].handle]]
    /\ UNCHANGED <<files, nextKey, objs, anchors, uaf, wstack, flow, nextRec, signed, granted,
                   now, last, slots, model, rejected>>

(* The native call of the method, on the handle it read. *)
NativeUse(op, anc, h, n, t) ==
    CASE op = "identity_id" -> aid_identity_get_id(anc, h)
      [] op = "public_key" -> aid_identity_get_public_key(anc, h)
      [] op = "sign_action" -> aid_action_sign(anc, h, <<"decision">>, <<"x">>, NullPtr, n, t)
      [] OTHER -> aid_trust_grant(anc, h, IdOf(2), PubOf(2), <<<<"read", ":", "*">>>>, n)

NativeName(op) ==
    CASE op = "identity_id" -> "aid_identity_get_id"
      [] op = "public_key" -> "aid_identity_get_public_key"
      [] op = "sign_action" -> "aid_action_sign"
      [] OTHER -> "aid_trust_grant"

(* The rest of the method: the native call, _check and _take_string. *)
Use_call(th) ==
    /\ frames[th].pc = "checked"
    /\ LET h == frames[th].handle
           op == frames[th].op
       IN \E r \in NativeUse(op, anchors, h, nextRec + 1, now) :
            LET s == StringCall(NativeName(op), r, BadHandle(anchors, h))
            IN /\ uaf' = (uaf \/ BadHandle(anchors, h))
               /\ nextRec' = IF op \in {"sign_action", "create_trust_grant"} /\ r.rc = AID_OK
                             THEN nextRec + 1 ELSE nextRec
               /\ frames' = [frames EXCEPT ![th] =
                               [@ EXCEPT !.pc = "idle", !.rc = r.rc, !.exc = s.exc,
                                         !.ret = IF s.exc.kind = "none" THEN "str" ELSE "none"]]
    /\ UNCHANGED <<files, nextKey, objs, anchors, wstack, flow, signed, granted,
                   now, last, slots, model, rejected>>

(* Threads that sign with the identities loaded from the stored container, *)
(* their calls overlapping.                                                *)
NextThreads ==
    \/ Identity_load(<<"a.aid">>, <<"pw">>)
    \/ \E th \in Threads, i \in 1..MaxObjs, at \in {<<"decision">>, <<>>} :
          Sign_begin(th, i, at)
    \/ \E th \in Threads : Sign_end(th)

SpecThreads == InitStored /\ [][NextThreads]_vars

(* What the threads verify: a receipt the engine issued and the same with  *)
(* its description changed; a grant over read:calendar that expires;       *)
(* read:calendar, write:email and a lone surrogate as the capability.      *)
ThreadReceipts ==
    {IssuedReceipt, JsonText([IssuedReceipt.doc EXCEPT !.description = <<"y">>])}

ThreadGrants ==
    {JsonText(Grant(1, <<"atrust_", "1">>, IdOf(2), PubOf(2),
                    <<<<"read", ":", "calendar">>>>, NoTime, 2, NoTime))}

ThreadCaps == {<<"read", ":", "calendar">>, <<"write", ":", "email">>, <<SURR>>}

(* Threads that verify, their calls overlapping, while an identity is      *)
(* loaded and the clock advances.                                          *)
NextVerifyThreads ==
    \/ Identity_load(<<"a.aid">>, <<"pw">>)
    \/ \E th \in Threads, t \in ThreadReceipts : Verify_receipt_begin(th, t)
    \/ \E th \in Threads, g \in ThreadGrants, c \in ThreadCaps :
          Verify_trust_grant_begin(th, g, c)
    \/ \E th \in Threads : Verify_end(th)
    \/ Tick

SpecVerifyThreads == InitStored /\ [][NextVerifyThreads]_vars

(* Acquiring handles: loads that succeed and fail, and the constructor    *)
(* called with a null handle.                                              *)
NextAcquire ==
    \/ \E p \in CreatePaths, w \in CreatePass : Identity_create(p, w)
    \/ \E p \in Paths, w \in LoadPass : Identity_load(p, w)
    \/ Construct(NullHandle)
    \/ Collect_rejected
    \/ \E i \in 1..MaxObjs : Identity_close(i)
    \/ \E i \in 1..MaxObjs : Identity_del(i)

SpecAcquire == Init /\ [][NextAcquire]_vars

(* Strings handed over by the engine. *)
NextStrings ==
    \/ \E p \in Paths, w \in LoadPass : Identity_load(p, w)
    \/ \E i \in 1..MaxObjs : Identity_close(i)
    \/ \E i \in 1..MaxObjs : Get_identity_id(i)
    \/ \E i \in 1..MaxObjs : Get_public_key(i)
    \/ \E i \in 1..MaxObjs, a \in ChainInputs : Sign_action(i, a.at, a.desc, a.data)
    \/ \E i \in 1..MaxObjs :
          Create_trust_grant(i, [id |-> IdOf(2), key |-> PubOf(2)], <<<<"read", ":", "*">>>>)
    \/ \E ptr \in StringPtrs : Take_string(ptr)
    \/ \E raw \in {Ptr(<<"0.1.0">>), NullPtr} : Version(raw)

SpecStrings == InitStored /\ [][NextStrings]_vars

(* One Identity loaded, then used and closed by the threads. *)
NextHandleThreads ==
    \/ Identity_load(<<"a.aid">>, <<"pw">>)
    \/ \E th \in Threads, i \in 1..MaxObjs : Close_check(th, i)
    \/ \E th \in Threads : Close_free(th)
    \/ \E th \in Threads : Close_end(th)
    \/ \E th \in Threads, i \in 1..MaxObjs, op \in HandleUsers : Use_check(th, i, op)
    \/ \E th \in Threads : Use_call(th)

SpecHandleThreads == InitStored /\ [][NextHandleThreads]_vars

----------------------------------------------------------------------------
(* Properties of the life of an Identity *)

UseOps == {"identity_id", "public_key", "sign_action", "create_trust_grant"}
CloseOps == {"close", "__exit__", "__del__"}
ClosedError == AgenticIdentityError(-1, "Identity handle has been closed")

(* C1: once an Identity's handle has been released, every call of          *)
(* identity_id, public_key, sign_action and create_trust_grant raises      *)
(* AgenticIdentityError "Identity handle has been closed" without calling  *)
(* the native library, no native function is ever given a handle that is   *)
(* not live, and a closed Identity never becomes open again.               *)
C1_UseAfterCloseFails ==
    /\ [](/\ ~uaf
          /\ (last.op \in UseOps /\ objs[last.obj].handle = None)
                => (last.exc = ClosedError /\ last.ncalls = <<>>))
    /\ [][\A i \in DOMAIN objs : objs[i].handle = None => objs'[i].handle = None]_vars

C1_Witness ==
    /\ last.op = "sign_action"
    /\ objs[last.obj].handle = None
    /\ last.exc = ClosedError
    /\ anchors[objs[last.obj].anchor].st = "freed"

(* C2: close, __exit__ and __del__ never raise; each anchor is passed to   *)
(* aid_identity_free at most once, by the first of them, after which the   *)
(* Identity is closed and its anchor freed; every later one makes no       *)
(* native call and changes neither the Identity nor the native heap.       *)
C2_CloseIdempotent ==
    /\ [](/\ \A h \in DOMAIN anchors : anchors[h].frees <= 1
          /\ last.op \in CloseOps =>
                /\ last.exc = NoExc
                /\ objs[last.obj].handle = None
                /\ anchors[objs[last.obj].anchor].st = "freed"
                /\ anchors[objs[last.obj].anchor].frees = 1)
    /\ [][\A i \in DOMAIN objs :
            (/\ objs[i].handle = None
             /\ Identity_close(i) \/ Identity_del(i) \/ (With_exit /\ wstack[Len(wstack)] = i))
            => (objs' = objs /\ anchors' = anchors /\ last'.ncalls = <<>>)]_vars

C2_Witness ==
    /\ last.op = "__del__"
    /\ last.ncalls = <<>>
    /\ objs[last.obj].handle = None
    /\ anchors[objs[last.obj].anchor].frees = 1

(* C3: when a with-block over an Identity has been left, at the end of the *)
(* body, on a return, or by an exception raised inside it, the Identity is *)
(* closed and its anchor freed.                                            *)
C3_WithReleases ==
    last.op = "__exit__" =>
        /\ last.arg \in {<<"run">>, <<"return">>, <<"raise">>}
        /\ objs[last.obj].handle = None
        /\ anchors[objs[last.obj].anchor].st = "freed"

C3_Witness ==
    /\ last.op = "__exit__"
    /\ last.arg = <<"raise">>
    /\ last.ncalls = <<"aid_identity_free">>
    /\ anchors[objs[last.obj].anchor].st = "freed"

----------------------------------------------------------------------------
(* Properties of receipts *)

ReturnsTrue == [exc |-> NoExc, ret |-> "True", ncalls |-> <<"aid_receipt_verify">>]
ReturnsFalse == [exc |-> NoExc, ret |-> "False", ncalls |-> <<"aid_receipt_verify">>]

(* C4: every receipt that sign_action returns verifies: verify_receipt of  *)
(* the unmodified text returns True without raising.                       *)
C4_RoundTrip ==
    /\ (last.op = "sign_action" /\ last.exc = NoExc) =>
          (signed = last.text /\ signed.shape = "record" /\ verify_receipt(signed) = ReturnsTrue)
    /\ signed.shape # "none" => verify_receipt(signed) = ReturnsTrue
    /\ (last.op = "verify_receipt" /\ last.text = signed) =>
          (last.exc = NoExc /\ last.ret = "True")

C4_Witness ==
    /\ last.op = "verify_receipt"
    /\ last.text = signed
    /\ signed.shape = "record"
    /\ signed.doc.data = <<"{1: a}">>
    /\ last.ret = "True"

(* C5: a receipt returned by sign_action whose description, timestamp or   *)
(* data has been given another value, with the hash left as it was or      *)
(* recomputed, is still parsed, and verify_receipt returns False for it    *)
(* without raising.                                                        *)
TamperFields == {"description", "timestamp", "data"}

C5_Tampered(d) ==
    {JsonText(Tamper(d, f)) : f \in TamperFields}
      \cup {JsonText(Rehash(Tamper(d, f))) : f \in TamperFields}
      \cup {JsonText([d EXCEPT !.data = <<"{k: 2}">>])}

C5_TamperSensitive ==
    signed.shape = "record" =>
        /\ \A t \in C5_Tampered(signed.doc) :
              WellFormedReceipt(CText(t)) /\ verify_receipt(t) = ReturnsFalse
        /\ (last.op = "verify_receipt" /\ last.text \in C5_Tampered(signed.doc)) =>
              (last.exc = NoExc /\ last.ret = "False")

C5_Witness ==
    /\ signed.shape = "record"
    /\ last.op = "verify_receipt"
    /\ last.text = JsonText(Rehash(Tamper(signed.doc, "description")))
    /\ last.exc = NoExc
    /\ last.ret = "False"

----------------------------------------------------------------------------
(* Properties of verification *)

SerializationFailure ==
    AgenticIdentityError(AID_ERR_SERIALIZATION, ERROR_MESSAGES(AID_ERR_SERIALIZATION))

(* A str without U+0000 and without a lone surrogate. *)
Plain(s) == \A n \in 1..Len(s) : s[n] \notin {NUL, SURR}
PlainText(t) == t.shape = "none" \/ Plain(t.tail)

(* C7: verify_receipt and verify_trust_grant raise the serialization error *)
(* exactly when the text given is not a well-formed record, and return a   *)
(* boolean for every well-formed record.                                   *)
C7_ErrorsExactlyForUnparseable ==
    /\ last.op = "verify_receipt" =>
          IF WellFormedReceipt(last.text)
          THEN last.exc = NoExc /\ last.ret \in {"True", "False"}
          ELSE last.exc = SerializationFailure
    /\ last.op = "verify_trust_grant" =>
          IF WellFormedGrant(last.text)
          THEN last.exc = NoExc /\ last.ret \in {"True", "False"}
          ELSE last.exc = SerializationFailure

(* The capability relation as the claims state it: the entry equals the    *)
(* request, or is "scope:*" with the scope of the request, or is "*".      *)
RECURSIVE ScopeOf(_)
ScopeOf(s) == IF s = <<>> \/ Head(s) = ":" THEN <<>> ELSE <<Head(s)>> \o ScopeOf(Tail(s))

ExactOrWildcard(entry, cap) ==
    \/ entry = cap
    \/ entry = <<"*">>
    \/ entry = ScopeOf(cap) \o <<":", "*">>

CoveredAsStated(g, cap) ==
    \E n \in 1..Len(g.capabilities) : ExactOrWildcard(g.capabilities[n], cap)

(* C8: for a parseable grant and a requested capability, verify_trust_grant *)
(* returns True iff the signature is valid, the time of the call is inside *)
(* [not_before, not_after] and the capability is covered; with an invalid  *)
(* signature it returns False.                                             *)
C8_TrueIffEveryStepPasses ==
    (last.op = "verify_trust_grant" /\ WellFormedGrant(last.text)) =>
        /\ last.ret = "True" <=>
              /\ GrantSigValid(last.text.doc)
              /\ InWindow(last.text.doc, last.time)
              /\ CoveredAsStated(last.text.doc, last.arg)
        /\ ~GrantSigValid(last.text.doc) => last.ret = "False"

(* C9: for a validly signed grant inside its time window, the requested    *)
(* capability verifies iff an entry equals it, or is "scope:*" with its    *)
(* scope, or is "*".                                                       *)
C9_ExactOrPrefixWildcardOnly ==
    (/\ last.op = "verify_trust_grant"
     /\ WellFormedGrant(last.text)
     /\ GrantSigValid(last.text.doc)
     /\ InWindow(last.text.doc, last.time)) =>
        (last.ret = "True" <=> CoveredAsStated(last.text.doc, last.arg))

(* C10: a grant whose not_after is before the time of the call verifies    *)
(* False for every requested capability; a grant whose not_before is after *)
(* it verifies False; and once not_before has been reached, a validly      *)
(* signed, unexpired grant that covers the capability verifies True.       *)
C10_TemporalBounds ==
    (last.op = "verify_trust_grant" /\ WellFormedGrant(last.text)) =>
        LET g == last.text.doc IN
        /\ (g.not_after # NoTime /\ g.not_after < last.time) => last.ret = "False"
        /\ (g.not_before # NoTime /\ last.time < g.not_before) => last.ret = "False"
        /\ (/\ g.not_before # NoTime
            /\ last.time >= g.not_before
            /\ g.not_after = NoTime \/ last.time <= g.not_after
            /\ GrantSigValid(g)
            /\ CoveredAsStated(g, last.arg)) => last.ret = "True"

(* What holds of C7 to C10 as stated above when the text and the           *)
(* capability given hold neither U+0000 nor a lone surrogate.              *)
VerifyPlainArguments ==
    (last.op \in {"verify_receipt", "verify_trust_grant"}
        /\ PlainText(last.text) /\ Plain(last.arg)) =>
        /\ C7_ErrorsExactlyForUnparseable
        /\ C8_TrueIffEveryStepPasses
        /\ C9_ExactOrPrefixWildcardOnly
        /\ C10_TemporalBounds

----------------------------------------------------------------------------
(* Properties of a grant over time and over repeated verification *)

(* The effective validity of grant g at time t, from its own fields. *)
Phase(g, t) ==
    IF g.not_after # NoTime /\ t > g.not_after THEN "expired"
    ELSE IF g.not_before # NoTime /\ t < g.not_before THEN "not-yet-active"
    ELSE "active"

PhaseRank(ph) ==
    CASE ph = "not-yet-active" -> 1 [] ph = "active" -> 2 [] ph = "expired" -> 3

(* What verify_trust_grant gives for the grant and the capability of the   *)
(* last call when called at time t.                                        *)
VerdictAt(t) ==
    Outcome(verify_trust_grant(last.text, last.arg, t).exc,
            verify_trust_grant(last.text, last.arg, t).ret)

(* C11: the clock only advances, so from the time of a verification on,    *)
(* the grant's validity only moves forward through not-yet-active, active, *)
(* expired; an expired grant never verifies True, and once a call has      *)
(* returned False for an expired grant, a call with the same grant and     *)
(* capability at any later time returns False; while the grant stays in    *)
(* the phase it was in, the verdict stays what it was (nothing revokes     *)
(* it).                                                                    *)
C11_ValidityMovesForward ==
    (last.op = "verify_trust_grant" /\ WellFormedGrant(last.text)) =>
        LET g == last.text.doc IN
        /\ last.time <= now
        /\ \A t \in last.time..MaxTime, u \in last.time..MaxTime :
              t <= u => PhaseRank(Phase(g, t)) <= PhaseRank(Phase(g, u))
        /\ Phase(g, last.time) = "expired" => last.ret # "True"
        /\ (Phase(g, last.time) = "expired" /\ last.ret = "False") =>
              \A t \in last.time..now : VerdictAt(t) = "False"
        /\ Phase(g, now) = Phase(g, last.time) =>
              VerdictAt(now) = Outcome(last.exc, last.ret)

C11_Witness ==
    /\ last.op = "verify_trust_grant"
    /\ WellFormedGrant(last.text)
    /\ GrantSigValid(last.text.doc)
    /\ Covered(last.text.doc, last.arg)
    /\ Phase(last.text.doc, 1) = "active"
    /\ Phase(last.text.doc, last.time) = "expired"
    /\ last.ret = "False"
    /\ now > last.time

----------------------------------------------------------------------------
(* Properties of grant creation *)

(* An engine failure as the binding raises it: AgenticIdentityError with   *)
(* the engine's status and the message _check gives for it.                *)
EngineFailure(e) ==
    e.kind = "AgenticIdentityError" /\ e.code # AID_OK /\ e.msg = ERROR_MESSAGES(e.code)

----------------------------------------------------------------------------
(* Properties of containers.                                               *)

(* The paths at which a container is stored. *)
Stored == {p \in DOMAIN files : files[p] # NoFile}

(* The store with the bytes of the container at p altered. *)
Altered(fs, p) == [fs EXCEPT ![p].intact = FALSE]

(* The failure the binding raises for the engine's decryption failure and  *)
(* for its failure to find or read the file.                               *)
PassphraseFailure == check(AID_ERR_CRYPTO)
IdentityNotFound == check(AID_ERR_IO)

(* C14: container secrecy.  For every stored container, Identity.load     *)
(* with any passphrase other than the one it was created under fails with  *)
(* the passphrase failure and yields no Identity, the failure is the one   *)
(* raised for the same container with altered bytes, and an Identity that  *)
(* load returned was loaded with the passphrase of creation.               *)
C14_ContainerSecrecy ==
    /\ \A p \in Stored : \A w \in VaultPass \ {files[p].pass} :
          /\ load(files, p, w).exc = PassphraseFailure
          /\ load(files, p, w).key = 0
          /\ load(files, p, w).exc = load(Altered(files, p), p, files[p].pass).exc
    /\ (last.op = "load" /\ last.exc = NoExc /\ last.arg[1] \in Stored)
          => last.arg[2] = files[last.arg[1]].pass

(* What does hold: a passphrase that is encodable text without U+0000 and  *)
(* differs from the passphrase of creation is refused with the failure     *)
(* raised for an altered container.                                        *)
C14_PlainPassphrases ==
    \A p \in Stored : \A w \in VaultPass \ {files[p].pass} :
        (Encodable(w) /\ CStr(w) = w)
            => /\ load(files, p, w).exc = PassphraseFailure
               /\ load(files, p, w).key = 0
               /\ load(files, p, w).exc = load(Altered(files, p), p, files[p].pass).exc

(* C15: identity id stability.  Every read of identity_id on an open      *)
(* Identity returns the id that Identity.create returned for the container *)
(* it was loaded from, on every load, and two open identities have the     *)
(* same id exactly when they have the same public key.                     *)
C15_IdentityIdStable ==
    /\ \A i \in Objs : objs[i].handle # None =>
          \A r \in identity_id(objs[i], anchors) :
              r.exc = NoExc /\ r.val = objs[i].made /\ r.val # <<>>
    /\ (last.op = "identity_id" /\ objs[last.obj].handle # None)
          => last.exc = NoExc /\ last.val = objs[last.obj].made
    /\ (last.op = "load" /\ last.exc = NoExc /\ last.arg[1] \in Stored
          /\ anchors[last.obj].key = files[last.arg[1]].key)
          => objs[last.obj].made = files[last.arg[1]].made
    /\ \A i, j \in Objs : (objs[i].handle # None /\ objs[j].handle # None) =>
          \A ri \in identity_id(objs[i], anchors), rj \in identity_id(objs[j], anchors),
             ki \in public_key(objs[i], anchors), kj \in public_key(objs[j], anchors) :
              (ri.val = rj.val) <=> (ki.val = kj.val)

(* Two identities loaded from two containers written at the same path are  *)
(* open, and identity_id was read on the second.                           *)
C15_Witness ==
    /\ Len(objs) = 2
    /\ objs[1].handle # None /\ objs[2].handle # None
    /\ objs[1].made = IdOf(1) /\ objs[2].made = IdOf(2)
    /\ last.op = "identity_id" /\ last.obj = 2 /\ last.val = IdOf(2)

(* C16: Identity.load of a path at which no container is stored fails     *)
(* with the not-found failure, returns no Identity and acquires no handle: *)
(* every anchor the engine has allocated belongs to an Identity.           *)
C16_LoadOfMissingPath ==
    /\ (last.op = "load" /\ last.arg[1] \notin Stored)
          => last.exc = IdentityNotFound /\ last.obj = 0 /\ last.ret = "none"
    /\ \A h \in DOMAIN anchors : anchors[h] # Unalloc => h \in Objs

(* What does hold: for a path that is encodable text without U+0000.       *)
C16_PlainPaths ==
    /\ \A p \in VaultPaths \ Stored : \A w \in VaultPass :
          (Encodable(p) /\ CStr(p) = p /\ Encodable(w))
              => load(files, p, w).exc = IdentityNotFound /\ load(files, p, w).key = 0
    /\ \A h \in DOMAIN anchors : anchors[h] # Unalloc => h \in Objs

----------------------------------------------------------------------------
(* Properties of the records an Identity signs.                            *)

(* C17: records name their signer.  Every receipt sign_action returned on *)
(* an Identity has actor equal to that Identity's id and actor_key equal   *)
(* to its public key; every grant create_trust_grant returned has grantor  *)
(* equal to the calling Identity's id and carries the grantee id and the   *)
(* grantee key that were passed in.                                        *)
C17_RecordsNameTheirSigner ==
    /\ (last.op = "sign_action" /\ last.exc = NoExc) =>
          /\ last.text.shape = "record"
          /\ last.text.doc.actor = objs[last.obj].made
          /\ last.text.doc.actor = IdOf(anchors[objs[last.obj].anchor].key)
          /\ last.text.doc.actor_key = PubOf(anchors[objs[last.obj].anchor].key)
    /\ (last.op = "create_trust_grant" /\ last.exc = NoExc) =>
          /\ last.text.shape = "record"
          /\ last.text.doc.grantor = objs[last.obj].made
          /\ last.text.doc.grantor = IdOf(anchors[objs[last.obj].anchor].key)
          /\ last.text.doc.grantee = last.arg[1]
          /\ last.text.doc.grantee_key = last.arg[2]

(* What does hold: the signer is named as stated, and the grantee id is    *)
(* the one passed in up to its first U+0000.                               *)
C17_SignerNamed ==
    /\ (last.op = "sign_action" /\ last.exc = NoExc) =>
          /\ last.text.shape = "record"
          /\ last.text.doc.actor = objs[last.obj].made
          /\ last.text.doc.actor = IdOf(anchors[objs[last.obj].anchor].key)
          /\ last.text.doc.actor_key = PubOf(anchors[objs[last.obj].anchor].key)
    /\ (last.op = "create_trust_grant" /\ last.exc = NoExc) =>
          /\ last.text.shape = "record"
          /\ last.text.doc.grantor = objs[last.obj].made
          /\ last.text.doc.grantor = IdOf(anchors[objs[last.obj].anchor].key)
          /\ last.text.doc.grantee = CStr(last.arg[1])
          /\ last.text.doc.grantee_key = CStr(last.arg[2])

----------------------------------------------------------------------------
(* Properties of calls made from several threads.                          *)

(* The receipts returned so far: thread and position. *)
Returned == {c \in Threads \X (1..MaxRecs) : c[2] <= Len(frames[c[1]].got)}

ReceiptAt(c) == frames[c[1]].got[c[2]]

(* C18: receipt ids are unique.  Every receipt sign_action returned is a  *)
(* record, and any two receipts returned, to the same thread or to two     *)
(* threads whose calls overlapped, on the same Identity and with the same  *)
(* arguments, have different ids.                                          *)
C18_ReceiptIdsUnique ==
    /\ \A c \in Returned : ReceiptAt(c).shape = "record"
    /\ \A c, d \in Returned : c # d => ReceiptAt(c).doc.id # ReceiptAt(d).doc.id

(* Two threads each got a receipt from sign_action with the same arguments *)
(* on the same Identity, the second call beginning while the first was in  *)
(* progress.                                                               *)
C18_Witness ==
    /\ Len(frames[1].got) = 1 /\ Len(frames[2].got) = 1
    /\ frames[1].pc = "idle" /\ frames[2].pc = "idle"
    /\ frames[1].op = "sign_action" /\ frames[2].op = "sign_action"
    /\ frames[1].obj = frames[2].obj
    /\ frames[1].arg = frames[2].arg
    /\ 1 \in frames[2].during
    /\ frames[1].got[1].doc.id # frames[2].got[1].doc.id

VerifyOps == {"verify_receipt", "verify_trust_grant"}

(* The outcome of the verification call in frame f when run alone. *)
Alone(f) ==
    IF f.op = "verify_receipt"
    THEN Outcome(verify_receipt(f.text).exc, verify_receipt(f.text).ret)
    ELSE Outcome(verify_trust_grant(f.text, f.arg, f.time).exc,
                 verify_trust_grant(f.text, f.arg, f.time).ret)

(* A step of a verification call of thread th. *)
VerifyStep(th) == frames'[th] # frames[th] /\ frames'[th].op \in VerifyOps

(* C19: verification holds no shared mutable state.  Under every          *)
(* interleaving of the threads' calls, a verification call that has        *)
(* returned has the outcome it has when run alone on the same arguments,   *)
(* and a step of a verification call changes no Identity, no anchor, no    *)
(* container, no other thread's call and not the record being verified.    *)
C19_VerificationIsPure ==
    /\ [](\A th \in Threads :
            (frames[th].pc = "idle" /\ frames[th].op \in VerifyOps)
                => Outcome(frames[th].exc, frames[th].ret) = Alone(frames[th]))
    /\ [][\A th \in Threads : VerifyStep(th) =>
            /\ UNCHANGED <<files, nextKey, objs, anchors, uaf, nextRec, signed, granted>>
            /\ \A u \in Threads \ {th} : frames'[u] = frames[u]
            /\ frames[th].pc = "called" =>
                  /\ frames'[th].text = frames[th].text
                  /\ frames'[th].arg = frames[th].arg]_vars

(* Thread 1 verified the issued receipt as True and thread 2 verified the  *)
(* changed receipt as False, the call of thread 2 beginning while that of  *)
(* thread 1 was in progress, with an Identity open.                        *)
C19_Witness ==
    /\ frames[1].pc = "idle" /\ frames[2].pc = "idle"
    /\ frames[1].op = "verify_receipt" /\ frames[2].op = "verify_receipt"
    /\ frames[1].text = IssuedReceipt /\ frames[2].text # IssuedReceipt
    /\ frames[1].ret = "True" /\ frames[2].ret = "False"
    /\ 1 \in frames[2].during
    /\ \E i \in Objs : objs[i].handle # None

----------------------------------------------------------------------------
(* Properties of the accessors.                                            *)

Closers == {"close", "__exit__", "__del__"}

Readers ==
    {"identity_id", "public_key", "sign_action", "create_trust_grant",
     "verify_receipt", "verify_trust_grant"}

(* C20: identity_id and public_key are pure accessors.  While an Identity *)
(* is open, a read of either returns one value, no step changes what a     *)
(* read returns while the Identity stays open, a step that is a read, a    *)
(* sign_action, a create_trust_grant or a verification, successful or      *)
(* failed, changes no Identity and no anchor, and the Identity's state     *)
(* changes only in a step of close, __exit__ or __del__ on it.             *)
C20_PureAccessors ==
    [][\A i \in Objs : objs[i].handle # None =>
          /\ \A r \in identity_id(objs[i], anchors) :
                r.exc = NoExc /\ identity_id(objs[i], anchors) = {r}
          /\ \A r \in public_key(objs[i], anchors) :
                r.exc = NoExc /\ public_key(objs[i], anchors) = {r}
          /\ objs'[i].handle # None =>
                /\ identity_id(objs'[i], anchors') = identity_id(objs[i], anchors)
                /\ public_key(objs'[i], anchors') = public_key(objs[i], anchors)
          /\ (last'.op = "identity_id" /\ last'.obj = i) =>
                \E r \in identity_id(objs[i], anchors) : last'.val = r.val
          /\ (last'.op = "public_key" /\ last'.obj = i) =>
                \E r \in public_key(objs[i], anchors) : last'.val = r.val
          /\ last'.op \in Readers =>
                objs'[i] = objs[i] /\ anchors'[objs[i].anchor] = anchors[objs[i].anchor]
          /\ (objs'[i] # objs[i] \/ anchors'[objs[i].anchor] # anchors[objs[i].anchor]) =>
                last'.op \in Closers /\ last'.obj = i]_vars

(* sign_action has succeeded, then failed on an Identity that is still     *)
(* open and whose identity_id reads as the id its container was created    *)
(* with.                                                                   *)
C20_Witness ==
    /\ last.op = "sign_action"
    /\ last.exc # NoExc
    /\ objs[last.obj].handle # None
    /\ signed.shape = "record"
    /\ \A r \in identity_id(objs[last.obj], anchors) : r.val = objs[last.obj].made

----------------------------------------------------------------------------
(* Properties of failures.                                                 *)

(* The fixed taxonomy of status codes. *)
Taxonomy ==
    {AID_ERR_NULL_PTR, AID_ERR_INVALID_UTF8, AID_ERR_CRYPTO, AID_ERR_IO,
     AID_ERR_SERIALIZATION}

TextNamesCode(e) ==
    \E k \in 1..Len(ErrorText(e)) : ErrorText(e)[k] = ToString(e.code)

(* C21: every failure is a typed error with a stable code and a message.  *)
(* _check raises exactly for a status other than AID_OK, with that status  *)
(* as the code; and whatever a call of the binding raised is an            *)
(* AgenticIdentityError raised for the status of the native call it made,  *)
(* with a code of the taxonomy and a message that names the code.          *)
C21_TypedErrors ==
    /\ \A rc \in Taxonomy \cup {AID_OK} :
          /\ (check(rc).kind # "none") <=> (rc # AID_OK)
          /\ rc # AID_OK => check(rc).kind = "AgenticIdentityError" /\ check(rc).code = rc
    /\ last.exc.kind # "none" =>
          /\ last.exc.kind = "AgenticIdentityError"
          /\ last.exc.code \in Taxonomy
          /\ last.exc.msg = ERROR_MESSAGES(last.exc.code)
          /\ last.ncalls # <<>>
          /\ TextNamesCode(last.exc)

(* What does hold: a failure is an AgenticIdentityError with a code of the *)
(* taxonomy and a message that names it, or it is the UnicodeEncodeError   *)
(* of str.encode or the TypeError of json.dumps, raised before any native  *)
(* call.                                                                   *)
C21_TypedOrFromPython ==
    /\ \A rc \in Taxonomy \cup {AID_OK} :
          /\ (check(rc).kind # "none") <=> (rc # AID_OK)
          /\ rc # AID_OK => check(rc).kind = "AgenticIdentityError" /\ check(rc).code = rc
    /\ last.exc.kind # "none" =>
          \/ /\ last.exc.kind = "AgenticIdentityError"
             /\ last.exc.code \in Taxonomy
             /\ TextNamesCode(last.exc)
          \/ /\ last.exc.kind \in {"UnicodeEncodeError", "TypeError"}
             /\ last.ncalls = <<>>

(* Data payloads that json.dumps or the engine cannot represent: a set,    *)
(* and a float NaN.                                                        *)
NonRepresentable == {"set", "nan"}

(* C22: sign_action with a data payload that cannot be serialized or       *)
(* canonicalized fails with the serialization failure and produces no      *)
(* receipt, and the Identity stays open with its id readable.              *)
C22_UnserializableData ==
    (/\ last.op = "sign_action"
     /\ last.arg[3] \in NonRepresentable
     /\ Encodable(last.arg[1]) /\ Encodable(last.arg[2])
     /\ CStr(last.arg[1]) # <<>>) =>
        /\ last.exc = SerializationFailure
        /\ last.text = NoText
        /\ objs[last.obj].handle # None
        /\ \A r \in identity_id(objs[last.obj], anchors) : r.exc = NoExc

(* What does hold: the call fails, with the serialization failure or with  *)
(* the TypeError of json.dumps, no receipt is produced and the Identity     *)
(* stays open.                                                             *)
C22_FailsAndStaysOpen ==
    (/\ last.op = "sign_action"
     /\ last.arg[3] \in NonRepresentable
     /\ Encodable(last.arg[1]) /\ Encodable(last.arg[2])
     /\ CStr(last.arg[1]) # <<>>) =>
        /\ last.exc \in {SerializationFailure, TypeError}
        /\ last.text = NoText
        /\ objs[last.obj].handle # None
        /\ \A r \in identity_id(objs[last.obj], anchors) : r.exc = NoExc

(* C23: sign_action with an empty action_type fails with the engine's      *)
(* validation failure and produces no receipt, and every non-empty         *)
(* action_type, well-known or custom, is accepted and is the receipt's     *)
(* action_type.                                                            *)
C23_ActionTypeOpenEnded ==
    (/\ last.op = "sign_action"
     /\ Encodable(last.arg[2])
     /\ last.arg[3] \in {"None", "kv", "intkey"}) =>
        /\ last.arg[1] = <<>> => EngineFailure(last.exc) /\ last.text = NoText
        /\ last.arg[1] # <<>> =>
              /\ last.exc = NoExc
              /\ last.text.shape = "record"
              /\ last.text.doc.action_type = last.arg[1]

(* What does hold: the same for an action_type that is encodable and does  *)
(* not begin with U+0000.                                                  *)
C23_PlainActionTypes ==
    (/\ last.op = "sign_action"
     /\ Encodable(last.arg[2])
     /\ last.arg[3] \in {"None", "kv", "intkey"}
     /\ Encodable(last.arg[1])) =>
        /\ CStr(last.arg[1]) = <<>> => EngineFailure(last.exc) /\ last.text = NoText
        /\ CStr(last.arg[1]) # <<>> =>
              /\ last.exc = NoExc
              /\ last.text.shape = "record"
              /\ last.text.doc.action_type = CStr(last.arg[1])

(* C24: sign_action accepts an optional previous receipt id: a receipt    *)
(* signed with previous receipt id P carries previous_receipt = P, a       *)
(* receipt signed without one carries none, both verify, and a reference   *)
(* to a receipt that does not exist is accepted like any other.            *)
C24_PreviousReceipt ==
    /\ (last.op = "sign_action" /\ Len(last.arg) = 4 /\ objs[last.obj].handle # None) =>
          /\ last.exc = NoExc
          /\ last.text.shape = "record"
          /\ last.text.doc.previous_receipt = last.arg[4]
          /\ verify_receipt(last.text) = ReturnsTrue
    /\ (last.op = "sign_action" /\ Len(last.arg) = 3 /\ last.exc = NoExc) =>
          /\ last.text.shape = "record"
          /\ last.text.doc.previous_receipt = <<>>
          /\ verify_receipt(last.text) = ReturnsTrue

(* What holds: a receipt signed without a reference carries none and      *)
(* verifies, and a call that names one raises TypeError in the            *)
(* interpreter, makes no native call and issues no receipt.                *)
C24_UnchainedOnly ==
    /\ (last.op = "sign_action" /\ Len(last.arg) = 3 /\ last.exc = NoExc) =>
          /\ last.text.shape = "record"
          /\ last.text.doc.previous_receipt = <<>>
          /\ verify_receipt(last.text) = ReturnsTrue
    /\ (last.op = "sign_action" /\ Len(last.arg) = 4) =>
          /\ last.exc = ArgumentError
          /\ last.ncalls = <<>>
          /\ last.text = NoText
    /\ signed.shape = "record" => signed.doc.previous_receipt = <<>>

C24_Witness ==
    /\ last.op = "sign_action"
    /\ Len(last.arg) = 4
    /\ last.arg[4] = <<"arec_", "1">>
    /\ objs[last.obj].handle # None
    /\ signed.shape = "record"
    /\ signed.doc.id = <<"arec_", "1">>

----------------------------------------------------------------------------
(* Properties of the typed models *)

(* C25: once an ActionReceipt, TrustGrant, IdentityInfo or                 *)
(* VerificationResult has been constructed no operation changes any of     *)
(* its fields, the receipt's data payload included, and assigning a field  *)
(* raises FrozenInstanceError and leaves the record as it was.             *)
C25_RecordsImmutable ==
    /\ model.val = model.made
    /\ model.op = "setattr" => model.exc = FrozenInstanceError

(* What holds: assigning a field raises FrozenInstanceError, and every    *)
(* field other than the receipt's data keeps the value it was made with.   *)
C25_FieldsFrozen ==
    /\ model.op = "setattr" => model.exc = FrozenInstanceError
    /\ DOMAIN model.val = DOMAIN model.made
    /\ \A f \in DOMAIN model.val \ {"data"} : model.val[f] = model.made[f]
    /\ model.op = "setitem" =>
          /\ model.exc = NoExc
          /\ model.val.data = model.arg.action.d.data

C25_Witness ==
    /\ model.op = "setattr"
    /\ model.val.class = "TrustGrant"
    /\ model.val.capabilities # PyTuple(<<>>)

(* Where the helpers read a field: the dict that holds it and its key. *)
C26_Holder(d, f) ==
    IF f \in {"description", "data"} THEN get(d, "action", EmptyDict).d
    ELSE IF f \in {"not_before", "not_after", "max_uses"}
    THEN get(d, "constraints", EmptyDict).d
    ELSE IF f \in {"delegation_allowed", "max_delegation_depth"}
    THEN get(d, "delegation", EmptyDict).d
    ELSE d

C26_Key(f) ==
    CASE f = "delegation_allowed" -> "allowed"
      [] f = "max_delegation_depth" -> "max_depth"
      [] OTHER -> f

C26_Present(d, f) == C26_Key(f) \in DOMAIN C26_Holder(d, f)

(* A present value as the model holds it: unchanged, but for action_type,  *)
(* which is lower-cased, and capabilities, made a tuple of the same items. *)
C26_Copied(d, f) ==
    LET v == C26_Holder(d, f)[C26_Key(f)]
    IN CASE f = "action_type" -> PyStr(lower(v.s))
         [] f = "capabilities" -> tuple(v)
         [] OTHER -> v

(* The defaults of the statement: empty string, 0, None, empty tuple,      *)
(* False.                                                                  *)
C26_StatedDefaults ==
    [id |-> PyStr(<<>>), actor |-> PyStr(<<>>), actor_key |-> PyStr(<<>>),
     action_type |-> PyStr(<<>>), description |-> PyStr(<<>>), timestamp |-> PyInt(0),
     signature |-> PyStr(<<>>), receipt_hash |-> PyStr(<<>>), data |-> PyNone,
     previous_receipt |-> PyNone, grantor |-> PyStr(<<>>), grantee |-> PyStr(<<>>),
     capabilities |-> PyTuple(<<>>), created_at |-> PyStr(<<>>), not_before |-> PyNone,
     not_after |-> PyNone, max_uses |-> PyNone, delegation_allowed |-> PyBool(FALSE),
     max_delegation_depth |-> PyInt(0)]

(* The defaults of the code: an absent action_type becomes "custom". *)
C26_Defaults == [C26_StatedDefaults EXCEPT !.action_type = PyStr(<<"custom">>)]

C26_Filled(defaults) ==
    \A f \in DOMAIN model.val \ {"class"} :
        model.val[f] = IF C26_Present(model.arg, f) THEN C26_Copied(model.arg, f)
                       ELSE defaults[f]

C26_Parsed == model.op \in {"parse_receipt", "parse_trust_grant"}

C26_Chained ==
    model.op = "parse_receipt" =>
       (is_chained(model.val) <=>
           ("previous_receipt" \in DOMAIN model.arg /\ model.arg.previous_receipt # PyNone))

C26_NoDictWhereRead(d) ==
    \/ "action" \in DOMAIN d /\ ~IsDict(d.action)
    \/ "constraints" \in DOMAIN d /\ ~IsDict(d.constraints)
    \/ "delegation" \in DOMAIN d /\ ~IsDict(d.delegation)

C26_Raises(op, d) ==
    IF op = "parse_receipt"
    THEN IF ("action_type" \in DOMAIN d /\ ~IsStr(d.action_type))
            \/ ("action" \in DOMAIN d /\ ~IsDict(d.action))
         THEN AttributeError ELSE NoExc
    ELSE IF "capabilities" \in DOMAIN d /\ ~IsIterable(d.capabilities) THEN NotIterable
    ELSE IF C26_NoDictWhereRead(d) THEN AttributeError
    ELSE NoExc

C30_GrantParsed ==
    /\ model.op = "parse_trust_grant"
    /\ granted.shape = "record"
    /\ model.arg = json_loads_grant(granted.doc)

C30_ReceiptParsed ==
    /\ model.op = "parse_receipt"
    /\ signed.shape = "record"
    /\ model.arg = json_loads_receipt(signed.doc)

C30_ReceiptPreserved ==
    C30_ReceiptParsed =>
       /\ model.exc = NoExc
       /\ model.val.id = PyStr(signed.doc.id)
       /\ model.val.actor = PyStr(signed.doc.actor)
       /\ model.val.actor_key = PyStr(signed.doc.actor_key)
       /\ model.val.description = PyStr(signed.doc.description)
       /\ model.val.signature = PyText(signed.doc.signature)
       /\ model.val.receipt_hash = PyText(signed.doc.receipt_hash)

C30_ParsePreservesSigned ==
    /\ C30_GrantParsed =>
          /\ model.exc = NoExc
          /\ model.val.capabilities =
                PyTuple([i \in 1..Len(granted.doc.capabilities) |->
                            PyStr(granted.doc.capabilities[i])])
          /\ model.val.signature = PyText(granted.doc.grantor_signature)
          /\ model.val.signature # PyStr(<<>>)
    /\ C30_ReceiptPreserved

(* What holds: the receipt's fields are preserved; of the grant, the id,   *)
(* the grantor and the grantee are, the capabilities are the tuple of the  *)
(* decoded objects and the signature is empty.                             *)
C30_GrantAsParsed ==
    /\ C30_GrantParsed =>
          /\ model.exc = NoExc
          /\ model.val.id = PyStr(granted.doc.id)
          /\ model.val.grantor = PyStr(granted.doc.grantor)
          /\ model.val.grantee = PyStr(granted.doc.grantee)
          /\ model.val.capabilities =
                PyTuple([i \in 1..Len(granted.doc.capabilities) |->
                            PyDict([uri |-> PyStr(granted.doc.capabilities[i])])])
          /\ model.val.signature = PyStr(<<>>)
    /\ C30_ReceiptPreserved

C30_Witness ==
    /\ C30_ReceiptParsed
    /\ model.val.description = PyStr(<<"y">>)
    /\ granted.shape = "record"

----------------------------------------------------------------------------
(* Properties of the native resources *)

(* C27: for every interleaving of close() with identity_id, public_key,   *)
(* sign_action, create_trust_grant or another close() running in other     *)
(* threads on one Identity, the native library is never called with a      *)
(* handle that was already passed to aid_identity_free, and               *)
(* aid_identity_free is called at most once for that handle.               *)
C27_HandleSafety ==
    /\ ~uaf
    /\ \A h \in DOMAIN anchors : anchors[h].frees <= 1

(* The calls of aid_free_string among the native calls of the last call. *)
C29_Frees ==
    Cardinality({k \in 1..Len(last.ncalls) : last.ncalls[k] = "aid_free_string"})

C29_StringOps == {"identity_id", "public_key", "sign_action", "create_trust_grant"}

(* C29: every non-null string a successful native call returns through an *)
(* output parameter is passed to aid_free_string exactly once on every     *)
(* path out of _take_string, the path where decoding it fails included; a  *)
(* null pointer raises an error with code AID_ERR_NULL_PTR without any     *)
(* free; the static pointer returned by aid_version is never freed.        *)
C29_StringsFreedOnce ==
    /\ last.op = "_take_string" =>
          IF last.arg[1].null
          THEN /\ last.exc.kind = "AgenticIdentityError"
               /\ last.exc.code = AID_ERR_NULL_PTR
               /\ C29_Frees = 0
          ELSE C29_Frees = 1
    /\ (last.op \in C29_StringOps /\ last.exc = NoExc) => C29_Frees = 1
    /\ last.op = "version" => C29_Frees = 0

(* What holds: a string that decodes is freed exactly once, a null        *)
(* pointer raises with code AID_ERR_NULL_PTR and nothing is freed, the     *)
(* version string is never freed; a string that does not decode raises     *)
(* UnicodeDecodeError and is not freed.                                    *)
C29_FreedWhenDecoded ==
    /\ last.op = "_take_string" =>
          IF last.arg[1].null
          THEN /\ last.exc.kind = "AgenticIdentityError"
               /\ last.exc.code = AID_ERR_NULL_PTR
               /\ C29_Frees = 0
          ELSE IF Decodable(last.arg[1])
          THEN last.exc = NoExc /\ C29_Frees = 1
          ELSE last.exc = UnicodeDecodeError /\ C29_Frees = 0
    /\ (last.op \in C29_StringOps /\ last.exc = NoExc) => C29_Frees = 1
    /\ last.op = "version" => C29_Frees = 0

(* C28: every Identity object holds either a non-null native handle or   *)
(* None; when aid_identity_load returns an error no Identity is            *)
(* constructed; constructing an Identity from a null handle raises         *)
(* AgenticIdentityError without ever calling aid_identity_free, the        *)
(* garbage collection of the rejected object included.                     *)
C28_Acquired == {h \in DOMAIN anchors : anchors[h].st # "unalloc"}

C28_NoNullIdentity ==
    /\ \A i \in Objs :
          \/ objs[i].handle = None
          \/ objs[i].handle # NullHandle /\ objs[i].handle \in C28_Acquired
    /\ Len(objs) = Cardinality(C28_Acquired)
    /\ (last.op = "load" /\ last.exc # NoExc) =>
          (last.obj = 0 /\ \A k \in 1..Len(last.ncalls) : last.ncalls[k] # "aid_identity_free")
    /\ last.op = "Identity" =>
          /\ last.exc.kind = "AgenticIdentityError"
          /\ last.ncalls = <<>>
    /\ (last.op = "__del__" /\ last.obj = 0) => (last.exc = NoExc /\ last.ncalls = <<>>)
    /\ \A k \in 1..Len(rejected) : rejected[k].attrs = {}

C28_Witness ==
    /\ last.op = "__del__"
    /\ last.obj = 0
    /\ last.arg = <<"AttributeError">>
    /\ \E i \in Objs : objs[i].handle # None
    /\ \E p \in Paths : files[p] # NoFile

============================================================================
